---- MODULE Spec2Model ----
(***************************************************************************)
(* Model of the Proofline evidence/insight pipeline.                       *)
(*                                                                         *)
(* Strings are sequences of atoms.  An atom is a piece of text that is     *)
(* never split: the separator "/", a letter, or a whole word such as       *)
(* "proj".  String operations (startsWith, includes, toLowerCase, join,    *)
(* normalize) are computed on these sequences the way the JavaScript       *)
(* runtime computes them on characters.                                    *)
(*                                                                         *)
(* Numbers with decimals are scaled to integers: confidences are in        *)
(* hundredths (0.95 -> 95), rule weights and scores in tenths.             *)
(***************************************************************************)
EXTENDS Integers, Sequences, FiniteSets, TLC

VARIABLES
    \* PathGuard (paths.ts)
    allowedRoots,   \* string[] : the whitelist handed to assertPathAllowed
    audit,          \* PathAccessAudit.records
    now,            \* Date.now(), a clock that advances with every record
    lastCall,       \* outcome of the last assertPathAllowed call
    checks,         \* number of assertPathAllowed / recordAudit calls made
    \* ConflictResolver (evidence.ts)
    items,          \* EvidenceItem[] handed to resolveConflicts
    resolved,       \* what resolveConflicts returned
    \* EvidenceCollector (evidence.ts)
    scope,          \* ProjectScope
    timeline,       \* TimelineEvent[]
    evidence,       \* the `evidence` array of collectEvidence
    pc,             \* position of the running function
    rootIdx,        \* index of the root pushFileChangeEvidence is scanning
    queue,          \* walkChangedFiles: queue
    current,        \* walkChangedFiles: current
    entries,        \* walkChangedFiles: entries still to visit
    changed,        \* walkChangedFiles: out
    trace,          \* every whitelist check and filesystem touch, in order
    collected,      \* how collectEvidence ended and what it returned
    \* EventClassifier (classify.ts)
    options,        \* ClassifyOptions: rules, followUpWindow, followUpCount, llm
    clsIdx,         \* loop index i of classifyEvents, counted from 1
    majorEvents,    \* the majorEvents array being built
    results,        \* the lists returned by the calls made so far
    pending,        \* the summarizer call classifyEvents is awaiting, if any
    insights,       \* what analyzeInsights returned, once it has
    \* ActionChainBuilder, ReplaySegmenter, NarrativeSegmenter
    actionChains,   \* what buildActionChains returned, once it has
    replay,         \* what buildReplaySegments returned, and its two counts
    segmentWindows, \* what splitSegments returned, and the limits it ran with
    progress,       \* computeFileChangeAroundInstructions and the two searches
    \* walkChangedFiles (evidence.ts)
    maxFiles,       \* the maxFiles argument of walkChangedFiles
    \* RuleBootstrapper (bootstrap.ts, defaultRules.ts)
    defaultRules,   \* the content of the exported array DEFAULT_RULES
    bootstrapped    \* what the calls of bootstrapRulesFromTimeline returned

pathVars     == <<allowedRoots, audit, now, lastCall, checks>>
conflictVars == <<items, resolved>>
collectVars  == <<scope, timeline, evidence, pc, rootIdx, queue, current,
                  entries, changed, trace, collected>>
classifyVars == <<options, clsIdx, majorEvents, results, pending>>
insightVars  == <<insights>>
derivedVars  == <<actionChains, replay, segmentWindows, progress>>
ruleVars     == <<defaultRules, bootstrapped>>
walkVars     == <<maxFiles>>
vars == <<pathVars, conflictVars, collectVars, classifyVars, insightVars, derivedVars,
          ruleVars, walkVars>>

\* lastCall before any call was made
NoCall == [made |-> FALSE, filePath |-> <<>>, threw |-> FALSE, at |-> 0]

\* resolved / collected before the function has returned
NotResolved == [done |-> FALSE, evidence |-> <<>>, conflicts |-> <<>>]
NotCollected == [status |-> "running", evidence |-> <<>>]

\* scope of a specification that does not collect evidence
NoScope == [mode |-> "all", projects |-> <<>>]

\* analyzeInsights has not returned
NoInsights == [returned |-> FALSE, instructions |-> <<>>, repetition |-> <<>>,
               featureDeltas |-> <<>>, timelineNarrative |-> <<>>]

\* actionChains / replay / segments before the function was called
NotBuilt == [done |-> FALSE]

\* options of a specification that does not classify
NoOptions == [rules |-> <<>>, followUpWindow |-> 0, followUpCount |-> 0,
              llm |-> [enabled |-> FALSE]]

(***************************************************************************)
(* Generic helpers on sequences                                            *)
(***************************************************************************)
Range(s) == {s[i] : i \in DOMAIN s}

SeqsUpTo(S, n) == UNION {[1..k -> S] : k \in 0..n}

\* String.prototype.startsWith
StartsWith(s, prefix) ==
    /\ Len(prefix) <= Len(s)
    /\ SubSeq(s, 1, Len(prefix)) = prefix

\* String.prototype.includes
Includes(s, sub) ==
    \E i \in 0..(Len(s) - Len(sub)) : SubSeq(s, i + 1, i + Len(sub)) = sub

\* Array.prototype.sort(cmp), which is stable.  before[i, j] tells whether
\* cmp(s[i], s[j]) < 0.  The element at index i lands after every element that
\* sorts before it and after every earlier element that compares equal to it.
StableSort(s, before) ==
    LET pos(i) == 1 + Cardinality({j \in DOMAIN s :
                        \/ before[j, i]
                        \/ (~before[i, j] /\ j < i)})
    IN  [k \in DOMAIN s |-> s[CHOOSE i \in DOMAIN s : pos(i) = k]]

(***************************************************************************)
(* PathGuard: paths.ts                                                     *)
(***************************************************************************)
WIN == "win32"

\* process.platform of the modelled run
Platform == "linux"

\* process.platform === WIN ? "\\" : "/"
PlatformSep == IF Platform = WIN THEN "\\" ELSE "/"

\* process.cwd(), against which resolve() completes a relative path
Cwd == <<"/", "home">>

\* The segments of a path: the pieces between separators (some may be empty).
RECURSIVE SplitPath(_, _)
SplitPath(p, cur) ==
    IF p = <<>> THEN <<cur>>
    ELSE IF Head(p) = "/" THEN <<cur>> \o SplitPath(Tail(p), <<>>)
    ELSE SplitPath(Tail(p), Append(cur, Head(p)))

\* Drop empty and "." segments, let ".." remove the segment before it.
RECURSIVE ResolveSegments(_, _)
ResolveSegments(segs, acc) ==
    IF segs = <<>> THEN acc
    ELSE LET seg == Head(segs) IN
         IF seg = <<>> \/ seg = <<".">> THEN ResolveSegments(Tail(segs), acc)
         ELSE IF seg = <<"..">>
              THEN ResolveSegments(Tail(segs),
                       IF acc = <<>> THEN acc ELSE SubSeq(acc, 1, Len(acc) - 1))
              ELSE ResolveSegments(Tail(segs), Append(acc, seg))

RECURSIVE JoinSegments(_)
JoinSegments(segs) ==
    IF segs = <<>> THEN <<>>
    ELSE <<"/">> \o Head(segs) \o JoinSegments(Tail(segs))

\* The normalized segments of resolve(p)
PathSegments(p) ==
    LET abs == IF StartsWith(p, <<"/">>) THEN p ELSE Cwd \o <<"/">> \o p
    IN  ResolveSegments(SplitPath(abs, <<>>), <<>>)

\* normalize(resolve(p)) of node:path on a POSIX platform
NormalizeResolve(p) ==
    LET segs == PathSegments(p)
    IN  IF segs = <<>> THEN <<"/">> ELSE JoinSegments(segs)

\* join(dir, name) of node:path
JoinPath(dir, name) == NormalizeResolve(dir \o <<"/">> \o name)

\* recordAudit: audit.records.push({path, action, allowed, reason, ts})
RecordAuditOverwritesLast(records, path, action, allowed, reason, ts) ==
    LET rec == [path |-> path, action |-> action, allowed |-> allowed,
                reason |-> reason, ts |-> ts]
    IN  IF records = <<>> THEN <<rec>>
        ELSE [records EXCEPT ![Len(records)] = rec]

RecordAudit(records, path, action, allowed, reason, ts) ==
    Append(records, [path |-> path, action |-> action, allowed |-> allowed,
                     reason |-> reason, ts |-> ts])

\* The `allowed` computed by assertPathAllowed: allowedRoots.some(...)
IsAllowed(filePath, roots) ==
    LET resolvedPath == NormalizeResolve(filePath)
    IN  \E i \in DOMAIN roots :
            LET normalizedRoot == NormalizeResolve(roots[i])
            IN  \/ resolvedPath = normalizedRoot
                \/ StartsWith(resolvedPath, normalizedRoot \o <<PlatformSep>>)

\* assertPathAllowed: the records after the call and whether it threw
AssertPathAllowed(filePath, roots, records, action, ts) ==
    LET resolvedPath == NormalizeResolve(filePath)
        allowed == IsAllowed(filePath, roots)
    IN  IF ~allowed
        THEN [records |-> RecordAudit(records, resolvedPath, action, FALSE,
                                      "outside client whitelist", ts),
              threw |-> TRUE]
        ELSE [records |-> RecordAudit(records, resolvedPath, action, TRUE,
                                      "within client whitelist", ts),
              threw |-> FALSE]

(***************************************************************************)
(* Specification SpecPaths: a run that makes whitelist checks              *)
(***************************************************************************)
MaxRoots == 2
MaxChecks == 2

\* Whitelist roots as callers write them (one with a trailing separator)
RootInputs == { <<"/">>, <<"/", "proj">>, <<"/", "proj", "/">>, <<"/", "etc">> }

\* Paths handed to the check
PathInputs == { <<"/">>,
                <<"/", "proj">>,
                <<"/", "proj", "2">>,
                <<"/", "proj", "/", "src">>,
                <<"/", "proj", "/", "..", "/", "etc">>,
                <<"/", "etc", "/", "/", "src">> }

AuditActions == {"read", "scan"}

\* A metadata field that is set, and one that is absent (undefined)
Some(v) == [defined |-> TRUE, value |-> v]
Absent == [defined |-> FALSE, value |-> <<>>]

\* An EventRule.  weight and minScore are in tenths; allOf and not hold
\* [defined, value] because the code tests rule.allOf?.length
Rule(id, eventType, anyOf, weight, minScore) ==
    [id |-> id, eventType |-> eventType, anyOf |-> anyOf,
     allOf |-> Absent, not |-> Absent,
     weight |-> Some(weight), minScore |-> Some(minScore)]

\* DEFAULT_RULES (the tokens written in Latin script)
DEFAULT_RULES ==
    << Rule("goal-delivery", "GOAL",
            << <<"fixed">>, <<"implemented">>, <<"merged">>, <<"shipped">>,
               <<"done">>, <<"success">> >>, 12, 10),
       Rule("assist-tool", "ASSIST",
            << <<"tool">>, <<"shell">>, <<"apply_patch">>, <<"function_call">>,
               <<"query">>, <<"tool", "_use">>, <<"tool", "_result">> >>, 10, 10),
       Rule("penalty-failure", "PENALTY",
            << <<"error">>, <<"failed">>, <<"exception">>, <<"timeout">>,
               <<"cannot">> >>, 11, 10),
       Rule("yellow-warning", "YELLOW_CARD",
            << <<"warning">>, <<"deprecated">>, <<"risk">>, <<"caution">>,
               <<"warning", ":">> >>, 9, 10),
       Rule("red-blocker", "RED_CARD",
            << <<"blocked">>, <<"fatal">>, <<"security">>,
               <<"permission", " ", "denied">>, <<"blocked", " ", "by">> >>, 14, 10),
       Rule("corner-setup", "CORNER",
            << <<"plan">>, <<"scaffold">>, <<"initialize">>, <<"setup">>,
               <<"skeleton">> >>, 8, 10),
       Rule("offside-revert", "OFFSIDE",
            << <<"revert">>, <<"rollback">>, <<"wrong">>, <<"mistake">> >>, 10, 10),
       Rule("substitution-switch", "SUBSTITUTION",
            << <<"switch">>, <<"replace">>, <<"migrate">>, <<"refactor">> >>, 8, 10) >>

\* the exported array before any call: the literal of defaultRules.ts
IdleRules == defaultRules = DEFAULT_RULES /\ bootstrapped = NotBuilt

\* const maxFiles = 600
MaxFiles == 600

\* the cap pushFileChangeEvidence hands to every walk
ProgramCap == maxFiles = MaxFiles

IdleConflict == items = <<>> /\ resolved = NotResolved

IdleCollect ==
    /\ scope = NoScope /\ timeline = <<>> /\ evidence = <<>> /\ pc = "idle"
    /\ rootIdx = 0 /\ queue = <<>> /\ current = <<>> /\ entries = <<>>
    /\ changed = <<>> /\ trace = <<>> /\ collected = NotCollected

IdleInsights == insights = NoInsights

IdleDerived ==
    /\ actionChains = NotBuilt /\ replay = NotBuilt /\ segmentWindows = NotBuilt
    /\ progress = NotBuilt

IdleClassify ==
    options = NoOptions /\ clsIdx = 0 /\ majorEvents = <<>> /\ results = <<>> /\ pending = <<>>

InitPaths ==
    /\ allowedRoots \in (SeqsUpTo(RootInputs, MaxRoots) \ {<<>>})
    /\ audit = <<>>          \* createAudit: records: []
    /\ now = 0
    /\ lastCall = NoCall
    /\ checks = 0
    /\ IdleConflict /\ IdleInsights /\ IdleDerived /\ IdleRules /\ ProgramCap /\ IdleCollect /\ IdleClassify

\* A caller invokes assertPathAllowed(filePath, allowedRoots, audit, action)
AssertPathAllowedCall ==
    /\ checks < MaxChecks
    /\ \E filePath \in PathInputs, action \in AuditActions :
        LET r == AssertPathAllowed(filePath, allowedRoots, audit, action, now)
        IN  /\ audit' = r.records
            /\ lastCall' = [made |-> TRUE, filePath |-> filePath, threw |-> r.threw,
                            at |-> Len(r.records)]
    /\ now' = now + 1
    /\ checks' = checks + 1
    /\ UNCHANGED <<allowedRoots, conflictVars, insightVars, derivedVars, ruleVars, walkVars, collectVars, classifyVars>>

\* A caller invokes recordAudit(audit, path, action, allowed, reason) directly
RecordAuditCall ==
    /\ checks < MaxChecks
    /\ \E path \in PathInputs, allowed \in BOOLEAN :
        audit' = RecordAudit(audit, path, "runner", allowed, "runner", now)
    /\ now' = now + 1
    /\ checks' = checks + 1
    /\ UNCHANGED <<allowedRoots, lastCall, conflictVars, insightVars, derivedVars, ruleVars, walkVars, collectVars, classifyVars>>

NextPaths == AssertPathAllowedCall \/ RecordAuditCall

SpecPaths == InitPaths /\ [][NextPaths]_vars

(***************************************************************************)
(* Properties of PathGuard, checked under SpecPaths                        *)
(***************************************************************************)
\* Containment by path segments: root is `path` itself or an ancestor of it
IsPathWithin(path, root) ==
    LET ps == PathSegments(path)
        rs == PathSegments(root)
    IN  Len(rs) <= Len(ps) /\ SubSeq(ps, 1, Len(rs)) = rs

\* C6: assertPathAllowed returns normally if and only if the resolved path
\* equals some resolved root or lies below it at a separator boundary; the
\* audit record it appended has allowed=true exactly when it returned
\* normally and allowed=false when it threw.
C6_AllowedIffWithinSomeRoot ==
    lastCall.made =>
        /\ ~lastCall.threw <=>
               \E i \in DOMAIN allowedRoots :
                   IsPathWithin(lastCall.filePath, allowedRoots[i])
        /\ audit[lastCall.at].allowed = ~lastCall.threw

\* C7: the audit is append-only.  Every assertPathAllowed / recordAudit call,
\* allowed or denied, appends exactly one record and leaves the records
\* appended before it unchanged and in place, so the number of records is
\* the number of checks performed.
C7_AuditAppendOnly ==
    /\ [](Len(audit) = checks)
    /\ [][/\ checks' = checks + 1
          /\ Len(audit') = Len(audit) + 1
          /\ SubSeq(audit', 1, Len(audit)) = audit]_pathVars

\* Two checks were made, the first allowed and the second denied
C7_Witness ==
    /\ checks = 2
    /\ Len(audit) = 2
    /\ audit[1].allowed
    /\ ~audit[2].allowed

(***************************************************************************)
(* ConflictResolver: evidence.ts, resolveConflicts                         *)
(***************************************************************************)
\* An absent (undefined) projectId / eventId
Undefined == "undefined"

\* String.prototype.toLowerCase, atom by atom
LowerAtom(a) ==
    CASE a = "Fix" -> "fix"
      [] a = "Run" -> "run"
      [] a = "Edit" -> "edit"
      [] a = "Implemented" -> "implemented"
      [] a = "AGENTS.md" -> "agents.md"
      [] a = "Still" -> "still"
      [] a = "OK" -> "ok"
      [] OTHER -> a

ToLowerCase(s) == [i \in DOMAIN s |-> LowerAtom(s[i])]

\* parts.map((v) => String(v)).join("|"); callers hand numbers over as text
RECURSIVE JoinParts(_)
JoinParts(parts) ==
    IF parts = <<>> THEN <<>>
    ELSE IF Len(parts) = 1 THEN <<parts[1]>>
    ELSE <<parts[1], "|">> \o JoinParts(Tail(parts))

\* stableId: the sha1 digest of the joined parts; the digest is kept symbolic,
\* equal digests exactly for equal joined texts
StableId(parts) == [sha1 |-> JoinParts(parts)]

\* const bucket = Math.floor(item.ts / 60_000)
BucketMs == 60000

\* the Map key `${bucket}|${item.projectId ?? "-"}|${item.summary.toLowerCase()}`
CollisionKeyCaseSensitive(item) ==
    <<item.ts \div BucketMs,
      IF item.projectId = Undefined THEN "-" ELSE item.projectId,
      item.summary>>

CollisionKey(item) ==
    <<item.ts \div BucketMs,
      IF item.projectId = Undefined THEN "-" ELSE item.projectId,
      ToLowerCase(item.summary)>>

\* The comparator of `ranked`: TRUE when it returns a negative number for (a, b)
RankBeforeConfidenceFirst(a, b) ==
    IF b.confidence # a.confidence THEN b.confidence - a.confidence < 0
    ELSE IF b.priority # a.priority THEN b.priority - a.priority < 0
    ELSE b.ts - a.ts < 0

RankBeforeWithoutTs(a, b) ==
    IF b.priority # a.priority THEN b.priority - a.priority < 0
    ELSE b.confidence - a.confidence < 0

RankBefore(a, b) ==
    IF b.priority # a.priority THEN b.priority - a.priority < 0
    ELSE IF b.confidence # a.confidence THEN b.confidence - a.confidence < 0
    ELSE b.ts - a.ts < 0

\* The comparator (a, b) => a.ts - b.ts
TsBefore(a, b) == a.ts - b.ts < 0

\* byKey.values(): the groups, in the order their keys were first inserted
GroupsOf(its) ==
    LET firstAt == SelectSeq([i \in DOMAIN its |-> i],
                     LAMBDA i : \A j \in 1..(i - 1) :
                                   CollisionKey(its[j]) # CollisionKey(its[i]))
    IN  [g \in DOMAIN firstAt |->
            SelectSeq(its, LAMBDA x : CollisionKey(x) = CollisionKey(its[firstAt[g]]))]

\* The conflict record pushed for a group with more than one member
ConflictOf(ranked) ==
    [id |-> StableId(<<"conflict", ranked[1].id, ToString(Len(ranked))>>),
     winnerEvidenceId |-> ranked[1].id,
     discardedEvidenceIds |-> [k \in 1..(Len(ranked) - 1) |-> ranked[k + 1].id],
     reason |-> "priority_rule:file_change>tool>assistant>user",
     confidence |-> ranked[1].confidence]

\* [...group].sort((a, b) => ...)
Ranked(group) ==
    StableSort(group, [i \in DOMAIN group, j \in DOMAIN group |->
                          RankBefore(group[i], group[j])])

\* a sort that leaves the list in the order the items were pushed
InPushOrder(list) == list

\* kept.sort((a, b) => a.ts - b.ts)
SortedByTs(list) ==
    StableSort(list, [i \in DOMAIN list, j \in DOMAIN list |->
                         TsBefore(list[i], list[j])])

RECURSIVE KeptOf(_)
KeptOf(groups) ==
    IF groups = <<>> THEN <<>>
    ELSE LET group == Head(groups) IN
         (IF Len(group) = 1 THEN <<group[1]>>
          ELSE <<Ranked(group)[1]>>) \o KeptOf(Tail(groups))

RECURSIVE ConflictsOf(_)
ConflictsOf(groups) ==
    IF groups = <<>> THEN <<>>
    ELSE LET group == Head(groups) IN
         (IF Len(group) = 1 THEN <<>>
          ELSE <<ConflictOf(Ranked(group))>>) \o ConflictsOf(Tail(groups))

\* resolveConflicts(items)
ResolveConflicts(its) ==
    [done |-> TRUE,
     evidence |-> SortedByTs(KeptOf(GroupsOf(its))),
     conflicts |-> ConflictsOf(GroupsOf(its))]

(***************************************************************************)
(* Specification SpecConflicts: resolveConflicts on a list of evidence     *)
(***************************************************************************)
MaxItems == 3

\* (ts, projectId, summary) triples: two timestamps at the ends of the first
\* one-minute bucket and one at the start of the next, summaries that differ
\* in case only, and a project id next to an absent one
SubjectInputs ==
    { <<0,     Undefined, <<"Fix">>>>,
      <<59999, Undefined, <<"fix">>>>,
      <<60000, Undefined, <<"fix">>>>,
      <<59999, "p1",      <<"fix">>>>,
      <<0,     "p1",      <<"Fix">>>> }

\* (priority, confidence in hundredths) pairs
GradeInputs == { <<5, 90>>, <<5, 95>>, <<6, 90>> }

\* The evidence lists of length n, the item at index i carrying the id "e<i>"
ItemLists(n) ==
    { [i \in 1..n |->
          [id |-> <<"e", ToString(i)>>,
           ts |-> c[i][1][1],
           projectId |-> c[i][1][2],
           summary |-> c[i][1][3],
           priority |-> c[i][2][1],
           confidence |-> c[i][2][2]]]
      : c \in [1..n -> SubjectInputs \X GradeInputs] }

IdlePaths ==
    /\ allowedRoots = <<>> /\ audit = <<>> /\ now = 0
    /\ lastCall = NoCall /\ checks = 0

InitConflicts ==
    /\ items \in UNION {ItemLists(n) : n \in 0..MaxItems}
    /\ resolved = NotResolved
    /\ IdlePaths /\ IdleCollect /\ IdleClassify /\ IdleInsights /\ IdleDerived /\ IdleRules /\ ProgramCap

\* const { evidence, conflicts } = resolveConflicts(items)
ResolveConflictsCall ==
    /\ ~resolved.done
    /\ resolved' = ResolveConflicts(items)
    /\ UNCHANGED <<items, pathVars, collectVars, classifyVars, insightVars, derivedVars, ruleVars, walkVars>>

NextConflicts == ResolveConflictsCall

SpecConflicts == InitConflicts /\ [][NextConflicts]_vars

(***************************************************************************)
(* Properties of ConflictResolver, checked under SpecConflicts             *)
(***************************************************************************)
\* Two items collide: same one-minute bucket, same projectId, same
\* lowercased summary
Collide(a, b) ==
    /\ a.ts \div 60000 = b.ts \div 60000
    /\ a.projectId = b.projectId
    /\ ToLowerCase(a.summary) = ToLowerCase(b.summary)

\* The indices of the input items that collide with the item at index i
GroupAt(i) == {j \in DOMAIN items : Collide(items[i], items[j])}

KeptIds == {resolved.evidence[k].id : k \in DOMAIN resolved.evidence}

\* C1: when exactly two items share a collision key and differ in priority,
\* the one with the higher priority is kept and the other is not, whichever
\* comes first in the input, and exactly one conflict record names the
\* higher-priority item as winner, with the other item's id among its
\* discardedEvidenceIds.
C1_HigherPriorityWins ==
    resolved.done =>
        \A i, j \in DOMAIN items :
            (/\ GroupAt(i) = {i, j}
             /\ items[i].priority > items[j].priority)
            => /\ items[i].id \in KeptIds
               /\ items[j].id \notin KeptIds
               /\ \E c \in DOMAIN resolved.conflicts :
                    /\ resolved.conflicts[c].winnerEvidenceId = items[i].id
                    /\ items[j].id \in Range(resolved.conflicts[c].discardedEvidenceIds)
                    /\ \A d \in DOMAIN resolved.conflicts :
                          resolved.conflicts[d].winnerEvidenceId = items[i].id => d = c

\* The higher-priority item of a two-item group comes second in the input
C1_Witness ==
    /\ resolved.done
    /\ Len(items) = 2
    /\ Collide(items[1], items[2])
    /\ items[2].priority > items[1].priority
    /\ items[2].confidence < items[1].confidence
    /\ Len(resolved.conflicts) = 1

\* C2: in every collision group with more than one member the winner is
\* maximal in the order priority, then confidence, then timestamp: no member
\* of its group has a higher priority, or the same priority and a higher
\* confidence, or the same priority and confidence and a later timestamp.
C2_WinnerIsMaximal ==
    resolved.done =>
        \A i \in DOMAIN items :
            Cardinality(GroupAt(i)) > 1 =>
                \E w \in GroupAt(i) :
                    /\ items[w].id \in KeptIds
                    /\ \A m \in GroupAt(i) :
                        ~ \/ items[m].priority > items[w].priority
                          \/ /\ items[m].priority = items[w].priority
                             /\ items[m].confidence > items[w].confidence
                          \/ /\ items[m].priority = items[w].priority
                             /\ items[m].confidence = items[w].confidence
                             /\ items[m].ts > items[w].ts

\* A group of three in which only the timestamp decides, the latest one first
\* in the input
C2_Witness ==
    /\ resolved.done
    /\ Len(items) = 3
    /\ GroupAt(1) = {1, 2, 3}
    /\ items[1].priority = items[2].priority
    /\ items[1].confidence = items[2].confidence
    /\ items[1].ts < items[2].ts
    /\ items[3].priority < items[1].priority
    /\ items[2].id \in KeptIds

\* C3: for input with unique ids, the output holds exactly one item for every
\* collision key, a group of one yields no conflict record and a larger group
\* exactly one, and every input id is either in the output evidence or in the
\* discardedEvidenceIds of exactly one conflict, never both.
C3_OneWinnerPerGroup ==
    resolved.done =>
        /\ Len(resolved.evidence) = Cardinality(KeptIds)
        /\ \A i \in DOMAIN items :
            LET winners == {j \in GroupAt(i) : items[j].id \in KeptIds}
                records == {c \in DOMAIN resolved.conflicts :
                              \E j \in GroupAt(i) :
                                  resolved.conflicts[c].winnerEvidenceId = items[j].id}
                discarding == {c \in DOMAIN resolved.conflicts :
                                 \E k \in DOMAIN resolved.conflicts[c].discardedEvidenceIds :
                                     resolved.conflicts[c].discardedEvidenceIds[k] = items[i].id}
            IN  /\ Cardinality(winners) = 1
                /\ Cardinality(records) = (IF Cardinality(GroupAt(i)) > 1 THEN 1 ELSE 0)
                /\ IF items[i].id \in KeptIds
                   THEN discarding = {}
                   ELSE Cardinality(discarding) = 1
        /\ \A k \in DOMAIN resolved.evidence :
              \E i \in DOMAIN items : resolved.evidence[k] = items[i]

\* A group of two whose summaries differ in case only, next to a group of one
C3_Witness ==
    /\ resolved.done
    /\ Len(items) = 3
    /\ GroupAt(1) = {1, 3}
    /\ items[1].summary # items[3].summary
    /\ GroupAt(2) = {2}
    /\ Len(resolved.evidence) = 2
    /\ Len(resolved.conflicts) = 1

(***************************************************************************)
(* EvidenceCollector: evidence.ts, collectEvidence                         *)
(***************************************************************************)
\* Array.prototype.join(sep) on strings
RECURSIVE JoinStrings(_, _)
JoinStrings(strs, sep) ==
    IF strs = <<>> THEN <<>>
    ELSE IF Len(strs) = 1 THEN strs[1]
    ELSE strs[1] \o <<sep>> \o JoinStrings(Tail(strs), sep)

\* evidenceTypeFromTimelineEvent
EvidenceTypeFromTimelineEvent(event) ==
    LET tags == ToLowerCase(JoinStrings(event.tags, " "))
        label == ToLowerCase(event.label \o <<" ">> \o event.detail)
    IN  IF Includes(tags, <<"file_change">>) THEN "file_change"
        ELSE IF Includes(tags, <<"tool_result">>)
                \/ Includes(label, <<"function_call", "_output">>) THEN "tool_result"
        ELSE IF Includes(tags, <<"tool_use">>)
                \/ Includes(label, <<"function_call">>) THEN "tool_call"
        ELSE IF event.actor = "assistant" THEN "assistant_text"
        ELSE IF event.actor = "user" THEN "user_text"
        ELSE "system"

\* priorityOf
PriorityOf(type) ==
    CASE type = "file_change" -> 6
      [] type \in {"tool_call", "tool_result"} -> 5
      [] type = "assistant_text" -> 4
      [] type = "user_text" -> 3
      [] OTHER -> 2

\* confidenceOf, in hundredths
ConfidenceOf(type) ==
    CASE type = "file_change" -> 95
      [] type \in {"tool_call", "tool_result"} -> 90
      [] type = "assistant_text" -> 82
      [] type = "user_text" -> 72
      [] OTHER -> 60

\* scope.project of a single-project scope
ScopeProject(sc) == sc.projects[1]

\* scopeRoots
ScopeRoots(sc) ==
    IF sc.mode = "single" THEN <<ScopeProject(sc).root>>
    ELSE [i \in DOMAIN sc.projects |-> sc.projects[i].root]

\* matchProjectId
MatchProjectId(sc, pathOrRoot) ==
    IF pathOrRoot = <<>> THEN Undefined
    ELSE LET normalized == NormalizeResolve(pathOrRoot) IN
         IF sc.mode = "single"
         THEN IF StartsWith(normalized, ScopeProject(sc).root)
              THEN ScopeProject(sc).id ELSE Undefined
         ELSE LET hits == {i \in DOMAIN sc.projects :
                             StartsWith(normalized, sc.projects[i].root)}
              IN  IF hits = {} THEN Undefined
                  ELSE sc.projects[CHOOSE i \in hits : \A j \in hits : i <= j].id


\* String(event.metadata.cwd ?? event.metadata.projectRoot ?? event.metadata.project ?? "")
MetadataDir(event) ==
    IF event.metadata.cwd.defined THEN event.metadata.cwd.value
    ELSE IF event.metadata.projectRoot.defined THEN event.metadata.projectRoot.value
    ELSE IF event.metadata.project.defined THEN event.metadata.project.value
    ELSE <<>>

\* input.client
Client == "codex"

\* input.range, as in the evidence tests
RangeStart == 0
RangeEnd == 10000

\* The item pushTimelineEvidence pushes for an event
TimelineItem(sc, event) ==
    LET type == EvidenceTypeFromTimelineEvent(event) IN
    [id |-> StableId(<<Client, "timeline", event.id, type>>),
     client |-> Client,
     projectId |-> MatchProjectId(sc, MetadataDir(event)),
     ts |-> event.ts,
     type |-> type,
     sourcePath |-> event.sourcePath,
     summary |-> event.label,
     detail |-> event.detail,
     confidence |-> ConfidenceOf(type),
     priority |-> PriorityOf(type),
     eventId |-> event.id]

\* pushTimelineEvidence: what the loop appends to `out`
RECURSIVE TimelineEvidence(_, _)
TimelineEvidence(sc, events) ==
    IF events = <<>> THEN <<>>
    ELSE LET event == Head(events)
             projectId == MatchProjectId(sc, MetadataDir(event))
         IN  IF event.ts < RangeStart \/ event.ts > RangeEnd
             THEN TimelineEvidence(sc, Tail(events))
             ELSE IF sc.mode = "single" /\ projectId # Undefined
                     /\ projectId # ScopeProject(sc).id
             THEN TimelineEvidence(sc, Tail(events))
             ELSE <<TimelineItem(sc, event)>> \o TimelineEvidence(sc, Tail(events))

\* The directory tree the walk runs on: readdirSync(dir, {withFileTypes: true}).
\* kind is "dir", "file" or "other" (neither isDirectory() nor isFile()).
Dirent(name, kind) == [name |-> name, kind |-> kind]

FsEntries(dir) ==
    CASE dir = <<"/">> ->
            << Dirent(<<"proj">>, "dir"), Dirent(<<"proj", "2">>, "dir") >>
      [] dir = <<"/", "proj">> ->
            << Dirent(<<".git">>, "dir"), Dirent(<<"a.ts">>, "file"),
               Dirent(<<"src">>, "dir"), Dirent(<<"sock">>, "other") >>
      [] dir = <<"/", "proj", "/", "src">> ->
            << Dirent(<<"node_modules">>, "dir"), Dirent(<<"b.ts">>, "file") >>
      [] dir = <<"/", "proj", "2">> ->
            << Dirent(<<"c.ts">>, "file") >>
      [] OTHER -> <<>>

\* stat.mtimeMs of a file: inside the range, between the timestamps of the
\* timeline events, or after the range
MtimeInputs == {1200, 20000}

\* const denyNames = new Set([...])
DenyNames == { <<".git">>, <<"node_modules">>, <<"dist">>, <<"build">>,
               <<".next">>, <<".cache">> }


\* relative(root, file.path) for a path below root
Relative(root, path) ==
    LET rs == PathSegments(root)
        ps == PathSegments(path)
    IN  Tail(JoinSegments(SubSeq(ps, Len(rs) + 1, Len(ps))))

\* The item pushFileChangeEvidence pushes for a changed file
FileChangeItem(sc, root, file) ==
    [id |-> StableId(<<Client, "file_change", file.path, ToString(file.mtime)>>),
     client |-> Client,
     projectId |-> MatchProjectId(sc, root),
     ts |-> file.mtime,
     type |-> "file_change",
     sourcePath |-> file.path,
     summary |-> <<"changed", " ">> \o Relative(root, file.path),
     detail |-> <<"filesystem mtime changed within range">>,
     confidence |-> 97,
     priority |-> 6,
     eventId |-> Undefined]

\* out.sort((a, b) => a.mtime - b.mtime)
SortedByMtime(list) ==
    StableSort(list, [i \in DOMAIN list, j \in DOMAIN list |->
                         list[i].mtime - list[j].mtime < 0])

\* evidence.sort((a, b) => a.ts - b.ts), the same comparator as kept.sort
SortedEvidence(list) == SortedByTs(list)

(***************************************************************************)
(* Specification SpecCollect: one call of collectEvidence                  *)
(***************************************************************************)
MaxEvents == 2

Project(id, root) == [id |-> id, root |-> root]

\* The project scopes: roots are normalized (projects.ts, normalizeRoot)
ScopeInputs ==
    { [mode |-> "single", projects |-> <<Project("p1", <<"/", "proj">>)>>],
      [mode |-> "single", projects |-> <<Project("p2", <<"/", "proj", "2">>)>>],
      [mode |-> "single", projects |-> <<Project("p0", <<"/">>)>>],
      [mode |-> "all", projects |-> <<Project("p1", <<"/", "proj">>),
                                      Project("p2", <<"/", "proj", "2">>)>>],
      [mode |-> "all", projects |-> <<Project("p2", <<"/", "proj", "2">>),
                                      Project("p1", <<"/", "proj">>)>>] }

\* allowedRoots: the scope's roots (what the command line passes), or the
\* first project's root only
AllowedRootsInputs(sc) == { ScopeRoots(sc), <<ScopeRoots(sc)[1]>> }

Event(ts, actor, tags, label, detail, metadata) ==
    [ts |-> ts, actor |-> actor, tags |-> tags, label |-> label,
     detail |-> detail, metadata |-> metadata, client |-> Client,
     sourcePath |-> <<"/", "session.jsonl">>]

NoMetadata == [cwd |-> Absent, projectRoot |-> Absent, project |-> Absent]

\* The timeline events a run may see (ids are given by position)
EventInputs ==
    { Event(1000, "assistant", <<<<"codex">>, <<"assistant_message">>>>,
            <<"assistant", " ", "note">>, <<"work">>,
            [NoMetadata EXCEPT !.cwd = Some(<<"/", "proj", "2">>)]),
      Event(1000, "assistant", <<<<"codex">>, <<"assistant_message">>>>,
            <<"assistant", " ", "note">>, <<"work">>,
            [NoMetadata EXCEPT !.cwd = Some(<<"/", "proj", "/", "src">>)]),
      Event(2000, "system", <<<<"codex">>, <<"file_change">>>>,
            <<"Edit">>, <<"a.ts">>,
            [NoMetadata EXCEPT !.projectRoot = Some(<<"/", "proj">>)]),
      Event(20000, "user", <<<<"codex">>>>,
            <<"Fix">>, <<"later">>,
            [NoMetadata EXCEPT !.cwd = Some(<<"/", "proj">>)]),
      Event(500, "user", <<<<"codex">>>>,
            <<"Run">>, <<"function_call", "_output">>,
            NoMetadata),
      Event(1500, "system", <<<<"codex">>, <<"tool_use">>>>,
            <<"shell">>, <<"ls">>,
            [NoMetadata EXCEPT !.project = Some(<<"/", "etc">>)]) }

\* The timelines of length n: sorted ascending by ts, ids unique
Timelines(n) ==
    { [i \in 1..n |-> [id |-> "evt-" \o ToString(i)] @@ c[i]]
      : c \in { d \in [1..n -> EventInputs] :
                  \A i \in 1..(n - 1) : d[i].ts <= d[i + 1].ts } }

InitCollect ==
    /\ scope \in ScopeInputs
    /\ allowedRoots \in AllowedRootsInputs(scope)
    /\ timeline \in UNION {Timelines(n) : n \in 0..MaxEvents}
    /\ audit = <<>> /\ now = 0 /\ lastCall = NoCall /\ checks = 0
    /\ evidence = <<>>
    /\ pc = "timeline"
    /\ rootIdx = 0 /\ queue = <<>> /\ current = <<>> /\ entries = <<>>
    /\ changed = <<>> /\ trace = <<>>
    /\ collected = NotCollected
    /\ IdleConflict /\ IdleInsights /\ IdleDerived /\ IdleRules /\ ProgramCap /\ IdleClassify

\* One entry of `trace`: a whitelist check ("assert"), a readdirSync
\* ("readdir") or a statSync ("stat") of `path` during the walk of root `walk`;
\* ok tells whether the call returned normally
Touch(op, path, ok, walk) == [op |-> op, path |-> path, ok |-> ok, walk |-> walk]

\* Whether the exception of a denied check leaves walkChangedFiles,
\* pushFileChangeEvidence and collectEvidence: none of them catches it
ScanSwallowsDenial(r) == FALSE

ScanAborts(r) == r.threw

\* The calls made for the popped directory: the check, then the listing
PopTouchesListFirst(dir, allowed, listed, walk) ==
    <<Touch("readdir", dir, listed, walk), Touch("assert", dir, allowed, walk)>>

PopTouches(dir, allowed, listed, walk) ==
    IF ~allowed THEN <<Touch("assert", dir, FALSE, walk)>>
    ELSE <<Touch("assert", dir, TRUE, walk), Touch("readdir", dir, listed, walk)>>

\* The calls made for a directory entry: the check, then for a file the stat
EntryTouches(full, allowed, kind, statOk, walk) ==
    IF ~allowed THEN <<Touch("assert", full, FALSE, walk)>>
    ELSE IF kind = "file"
         THEN <<Touch("assert", full, TRUE, walk), Touch("stat", full, statOk, walk)>>
         ELSE <<Touch("assert", full, TRUE, walk)>>

Threw == [status |-> "threw", evidence |-> <<>>]

\* a walk that stops only once it holds more files than the cap
CapReachedLate(out, cap) == Len(out) > cap

\* out.length >= maxFiles, the test of the while loop and of the break
CapReached(out, cap) == Len(out) >= cap

\* collectEvidence, first half: pushTimelineEvidence(input, evidence)
PushTimelineEvidence ==
    /\ pc = "timeline"
    /\ evidence' = evidence \o TimelineEvidence(scope, timeline)
    /\ pc' = "roots"
    /\ rootIdx' = 1
    /\ UNCHANGED <<scope, timeline, queue, current, entries, changed, trace,
                   collected, pathVars, conflictVars, insightVars, derivedVars, ruleVars, walkVars, classifyVars>>

\* pushFileChangeEvidence: the loop takes the next root and calls
\* walkChangedFiles, which starts with queue = [root] and out = []
WalkStart ==
    /\ pc = "roots"
    /\ rootIdx <= Len(ScopeRoots(scope))
    /\ queue' = <<ScopeRoots(scope)[rootIdx]>>
    /\ changed' = <<>>
    /\ pc' = "walk"
    /\ UNCHANGED <<scope, timeline, evidence, rootIdx, current, entries, trace,
                   collected, pathVars, conflictVars, insightVars, derivedVars, ruleVars, walkVars, classifyVars>>

\* walkChangedFiles: one turn of the while loop up to the for loop:
\* queue.pop(), assertPathAllowed(current), readdirSync(current)
WalkPop ==
    /\ pc = "walk"
    /\ queue # <<>>
    /\ ~CapReached(changed, maxFiles)
    /\ LET dir == queue[Len(queue)]
           r == AssertPathAllowed(dir, allowedRoots, audit, "scan", now)
       IN  /\ current' = dir
           /\ queue' = SubSeq(queue, 1, Len(queue) - 1)
           /\ audit' = r.records
           /\ now' = now + 1
           /\ checks' = checks + 1
           /\ IF ScanAborts(r)
              THEN /\ trace' = trace \o PopTouches(dir, FALSE, FALSE, rootIdx)
                   /\ entries' = <<>>
                   /\ pc' = "done"
                   /\ collected' = Threw
              ELSE \E listed \in BOOLEAN :
                   /\ trace' = trace \o PopTouches(dir, ~r.threw, listed, rootIdx)
                   /\ entries' = IF listed THEN FsEntries(dir) ELSE <<>>
                   /\ pc' = IF listed /\ FsEntries(dir) # <<>> THEN "entries" ELSE "walk"
                   /\ UNCHANGED collected
    /\ UNCHANGED <<scope, timeline, evidence, rootIdx, changed, allowedRoots,
                   lastCall, conflictVars, insightVars, derivedVars, ruleVars, walkVars, classifyVars>>

\* walkChangedFiles: one turn of the for loop over the entries
WalkEntry ==
    /\ pc = "entries"
    /\ entries # <<>>
    /\ \E entry \in {Head(entries)} :
       \E full \in {JoinPath(current, entry.name)} :
       \E r \in {AssertPathAllowed(full, allowedRoots, audit, "scan", now)} :
       LET next == IF Tail(entries) = <<>> THEN "walk" ELSE "entries"
       IN  IF entry.name \in DenyNames
           THEN /\ entries' = Tail(entries)
                /\ pc' = next
                /\ UNCHANGED <<queue, changed, trace, collected, pathVars>>
           ELSE /\ audit' = r.records
                /\ now' = now + 1
                /\ checks' = checks + 1
                /\ UNCHANGED <<allowedRoots, lastCall>>
                /\ IF ScanAborts(r)
                   THEN /\ trace' = trace \o EntryTouches(full, FALSE, entry.kind, FALSE, rootIdx)
                        /\ entries' = <<>>
                        /\ pc' = "done"
                        /\ collected' = Threw
                        /\ UNCHANGED <<queue, changed>>
                   ELSE IF entry.kind = "dir"
                   THEN /\ queue' = Append(queue, full)
                        /\ trace' = trace \o EntryTouches(full, ~r.threw, "dir", FALSE, rootIdx)
                        /\ entries' = Tail(entries)
                        /\ pc' = next
                        /\ UNCHANGED <<changed, collected>>
                   ELSE IF entry.kind # "file"
                   THEN /\ trace' = trace \o EntryTouches(full, ~r.threw, "other", FALSE, rootIdx)
                        /\ entries' = Tail(entries)
                        /\ pc' = next
                        /\ UNCHANGED <<queue, changed, collected>>
                   ELSE \E statOk \in BOOLEAN, mtime \in MtimeInputs :
                        LET hit == statOk /\ mtime >= RangeStart /\ mtime <= RangeEnd
                            out == IF hit
                                   THEN Append(changed, [path |-> full, mtime |-> mtime])
                                   ELSE changed
                            break == hit /\ CapReached(out, maxFiles)
                        IN  /\ trace' = trace \o EntryTouches(full, ~r.threw, "file", statOk, rootIdx)
                            /\ changed' = out
                            /\ entries' = IF break THEN <<>> ELSE Tail(entries)
                            /\ pc' = IF break THEN "walk" ELSE next
                            /\ UNCHANGED <<queue, collected>>
    /\ UNCHANGED <<scope, timeline, evidence, rootIdx, current,
                   conflictVars, insightVars, derivedVars, ruleVars, walkVars, classifyVars>>

\* walkChangedFiles returns out sorted by mtime; pushFileChangeEvidence
\* pushes one item per changed file and goes on to the next root
WalkReturn ==
    /\ pc = "walk"
    /\ (queue = <<>> \/ CapReached(changed, maxFiles))
    /\ LET root == ScopeRoots(scope)[rootIdx]
           files == SortedByMtime(changed)
       IN  evidence' = evidence \o [k \in DOMAIN files |->
                                       FileChangeItem(scope, root, files[k])]
    /\ rootIdx' = rootIdx + 1
    /\ pc' = "roots"
    /\ UNCHANGED <<scope, timeline, queue, current, entries, changed, trace,
                   collected, pathVars, conflictVars, insightVars, derivedVars, ruleVars, walkVars, classifyVars>>

\* collectEvidence returns evidence.sort((a, b) => a.ts - b.ts)
CollectReturn ==
    /\ pc = "roots"
    /\ rootIdx > Len(ScopeRoots(scope))
    /\ collected' = [status |-> "returned", evidence |-> SortedEvidence(evidence)]
    /\ pc' = "done"
    /\ UNCHANGED <<scope, timeline, evidence, rootIdx, queue, current, entries,
                   changed, trace, pathVars, conflictVars, insightVars, derivedVars, ruleVars, walkVars, classifyVars>>

NextCollect ==
    \/ PushTimelineEvidence
    \/ WalkStart
    \/ WalkPop
    \/ WalkEntry
    \/ WalkReturn
    \/ CollectReturn

SpecCollect == InitCollect /\ [][NextCollect]_vars

(***************************************************************************)
(* Properties of EvidenceCollector, checked under SpecCollect              *)
(***************************************************************************)
\* The timeline events inside the time range
InRange(event) == event.ts >= RangeStart /\ event.ts <= RangeEnd

\* The evidence items pushed for the event with this id
ItemsOfEvent(id) == {k \in DOMAIN evidence : evidence[k].eventId = id}

\* dir is a sibling of root: root is a string prefix of it, not a path ancestor
IsSiblingOf(dir, root) ==
    /\ StartsWith(NormalizeResolve(dir), root)
    /\ ~IsPathWithin(dir, root)

\* C4: with a single-project scope, a timeline event whose working directory
\* (cwd / projectRoot / project) is a sibling directory of the project root
\* yields an evidence item whose projectId is undefined.
C4_SiblingNotAttributedSingle ==
    (pc # "timeline" /\ scope.mode = "single") =>
        \A e \in DOMAIN timeline :
            (/\ InRange(timeline[e])
             /\ MetadataDir(timeline[e]) # <<>>
             /\ IsSiblingOf(MetadataDir(timeline[e]), ScopeProject(scope).root))
            => /\ ItemsOfEvent(timeline[e].id) # {}
               /\ \A k \in ItemsOfEvent(timeline[e].id) :
                     evidence[k].projectId = Undefined

\* C5: with scope mode "all", when two listed roots share a string prefix and
\* an event's working directory is the longer root, the evidence item's
\* projectId is the id of the project whose root is that directory or a path
\* ancestor of it, whatever the order of the projects list.
C5_SiblingAttributedAll ==
    (pc # "timeline" /\ scope.mode = "all") =>
        \A e \in DOMAIN timeline, p, q \in DOMAIN scope.projects :
            (/\ InRange(timeline[e])
             /\ p # q
             /\ StartsWith(scope.projects[q].root, scope.projects[p].root)
             /\ NormalizeResolve(MetadataDir(timeline[e])) = scope.projects[q].root
             /\ ~IsPathWithin(scope.projects[q].root, scope.projects[p].root))
            => /\ ItemsOfEvent(timeline[e].id) # {}
               /\ \A k \in ItemsOfEvent(timeline[e].id) :
                     evidence[k].projectId = scope.projects[q].id

\* C8: during the filesystem walk every readdirSync and every statSync of a
\* path comes after a successful assertPathAllowed of that same path in the
\* same walk, and the audit holds an allowed=true record for the path.
C8_TouchOnlyAfterAllowed ==
    \A i \in DOMAIN trace :
        trace[i].op \in {"readdir", "stat"} =>
            /\ \E j \in 1..(i - 1) :
                  /\ trace[j].op = "assert"
                  /\ trace[j].ok
                  /\ trace[j].path = trace[i].path
                  /\ trace[j].walk = trace[i].walk
            /\ \E a \in DOMAIN audit :
                  /\ audit[a].allowed
                  /\ audit[a].path = NormalizeResolve(trace[i].path)

\* A walk listed a directory and stat'ed a file in a subdirectory
C8_Witness ==
    /\ \E i \in DOMAIN trace : trace[i].op = "readdir" /\ trace[i].ok
    /\ \E i \in DOMAIN trace :
          /\ trace[i].op = "stat"
          /\ trace[i].path = <<"/", "proj", "/", "src", "/", "b.ts">>

\* Some whitelist check made during the scan was denied
ScanDenied == \E a \in DOMAIN audit : ~audit[a].allowed

DefaultWeight == 10
DefaultMinScore == 10

\* normalizeText(`${event.label} ${event.detail} ${event.tags.join(" ")}`)
EventText(event) ==
    ToLowerCase(event.label \o <<" ">> \o event.detail \o <<" ">>
                \o JoinStrings(event.tags, " "))

\* scoreRule without the test of rule.not
ScoreRuleIgnoresNot(rule, event) ==
    LET text == EventText(event)
        score == Cardinality({k \in DOMAIN rule.anyOf :
                                Includes(text, ToLowerCase(rule.anyOf[k]))})
    IN  IF /\ rule.allOf.defined
           /\ \E k \in DOMAIN rule.allOf.value :
                 ~Includes(text, ToLowerCase(rule.allOf.value[k]))
        THEN 0
        ELSE score * (IF rule.weight.defined THEN rule.weight.value ELSE DefaultWeight)

\* scoreRule, in tenths
ScoreRule(rule, event) ==
    LET text == EventText(event)
        score == Cardinality({k \in DOMAIN rule.anyOf :
                                Includes(text, ToLowerCase(rule.anyOf[k]))})
    IN  IF /\ rule.allOf.defined
           /\ Len(rule.allOf.value) > 0
           /\ \E k \in DOMAIN rule.allOf.value :
                 ~Includes(text, ToLowerCase(rule.allOf.value[k]))
        THEN 0
        ELSE IF /\ rule.not.defined
                /\ Len(rule.not.value) > 0
                /\ \E k \in DOMAIN rule.not.value :
                      Includes(text, ToLowerCase(rule.not.value[k]))
        THEN 0
        ELSE score * (IF rule.weight.defined THEN rule.weight.value ELSE DefaultWeight)

\* topRule that takes the highest score first and tests minScore afterwards
TopRuleThresholdLast(event, rls) ==
    LET scored == [k \in DOMAIN rls |-> [rule |-> rls[k], score |-> ScoreRule(rls[k], event)]]
        sorted == StableSort(scored, [i \in DOMAIN scored, j \in DOMAIN scored |->
                                         scored[j].score - scored[i].score < 0])
    IN  IF sorted = <<>> THEN <<>>
        ELSE IF sorted[1].score >= (IF sorted[1].rule.minScore.defined
                                    THEN sorted[1].rule.minScore.value ELSE DefaultMinScore)
        THEN <<sorted[1]>> ELSE <<>>

\* topRule that takes the last of the candidates of the highest score
TopRuleLastOfTies(event, rls) ==
    LET scored == [k \in DOMAIN rls |-> [rule |-> rls[k], score |-> ScoreRule(rls[k], event)]]
        kept == SelectSeq(scored, LAMBDA x :
                   x.score >= (IF x.rule.minScore.defined THEN x.rule.minScore.value
                               ELSE DefaultMinScore))
        candidates == StableSort(kept, [i \in DOMAIN kept, j \in DOMAIN kept |->
                                           kept[j].score - kept[i].score <= 0 /\ i > j])
    IN  IF candidates = <<>> THEN <<>> ELSE <<candidates[1]>>

\* topRule: the candidates, scored, filtered and sorted by score descending;
\* <<>> stands for null
TopRule(event, rls) ==
    LET scored == [k \in DOMAIN rls |-> [rule |-> rls[k], score |-> ScoreRule(rls[k], event)]]
        kept == SelectSeq(scored, LAMBDA x :
                   x.score >= (IF x.rule.minScore.defined THEN x.rule.minScore.value
                               ELSE DefaultMinScore))
        candidates == StableSort(kept, [i \in DOMAIN kept, j \in DOMAIN kept |->
                                           kept[j].score - kept[i].score < 0])
    IN  IF candidates = <<>> THEN <<>> ELSE <<candidates[1]>>

\* options.rules after topRule has run: map, filter and sort work on new
\* arrays, the rule list handed in is left as it was
RulesSortedInPlace(event, rls) ==
    StableSort(rls, [i \in DOMAIN rls, j \in DOMAIN rls |->
                        ScoreRule(rls[j], event) - ScoreRule(rls[i], event) < 0])

RulesAfterTopRule(event, rls) == rls

\* event.detail.slice(0, 220)
SummaryLimit == 220

\* Follow-ups chosen by time: the events later than the trigger by ts
FollowUpIdsByTs(events, idx, window, count) ==
    LET later == SelectSeq(events, LAMBDA e : e.ts > events[idx].ts)
        inWindow == SubSeq(later, 1, IF window < Len(later) THEN window ELSE Len(later))
        taken == SubSeq(inWindow, 1, IF count < Len(inWindow) THEN count ELSE Len(inWindow))
    IN  [k \in DOMAIN taken |-> taken[k].id]

\* timeline.slice(i + 1, i + 1 + followUpWindow).slice(0, followUpCount).map(id),
\* idx being the position of the trigger counted from 1
FollowUpIds(events, idx, window, count) ==
    LET inWindow == SubSeq(events, idx + 1,
                       IF idx + window < Len(events) THEN idx + window ELSE Len(events))
        taken == SubSeq(inWindow, 1, IF count < Len(inWindow) THEN count ELSE Len(inWindow))
    IN  [k \in DOMAIN taken |-> taken[k].id]

\* The MajorEvent built for a matching event (score in tenths)
MajorEvent(events, idx, match, opts) ==
    LET event == events[idx] IN
    [id |-> StableId(<<event.id, match.rule.id, ToString(event.ts)>>),
     client |-> event.client,
     ts |-> event.ts,
     type |-> match.rule.eventType,
     title |-> <<match.rule.eventType, ":", " ">> \o event.label,
     summary |-> SubSeq(event.detail, 1,
                    IF Len(event.detail) < SummaryLimit THEN Len(event.detail)
                    ELSE SummaryLimit),
     score |-> match.score,
     triggerEventId |-> event.id,
     followUpEventIds |-> FollowUpIds(events, idx, opts.followUpWindow, opts.followUpCount),
     ruleId |-> match.rule.id]

(***************************************************************************)
(* Specification SpecClassify: classifyEvents called repeatedly on the     *)
(* same timeline and options, enrichment disabled                          *)
(***************************************************************************)
MaxClsEvents == 3
MaxCalls == 2

ClsEvent(actor, tags, label, detail) ==
    Event(0, actor, tags, label, detail, NoMetadata)

\* Event texts (those of the event-engine test, and some that make rules tie)
ClsEventInputs ==
    { ClsEvent("system", <<<<"codex">>, <<"system">>>>,
               <<"setup", " ", "project", " ", "skeleton">>, <<"created", " ", "scaffold">>),
      ClsEvent("assistant", <<<<"codex">>, <<"assistant_message">>>>,
               <<"apply_patch", " ", "success">>, <<"Implemented", " ", "auth", " ", "flow">>),
      ClsEvent("system", <<<<"codex">>, <<"system">>>>,
               <<"test", " ", "failed">>, <<"permission", " ", "denied", " ", "on", " ", "db">>),
      ClsEvent("assistant", <<<<"codex">>>>,
               <<"revert", " ", "tool">>, <<"note">>),
      ClsEvent("assistant", <<<<"codex">>>>,
               <<"rollback">>, <<"note">>),
      ClsEvent("user", <<<<"codex">>>>,
               <<"hello">>, <<"world">>) }

\* The timelines of length n, sorted by ts: the event at position i has id
\* "<i>", and neighbours share a ts (1, 1, 2, 2, ...)
ClsTimelines(n) ==
    { [i \in 1..n |-> [c[i] EXCEPT !.ts = (i + 1) \div 2] @@ [id |-> ToString(i)]]
      : c \in [1..n -> ClsEventInputs] }

\* (followUpWindow, followUpCount): the test's, and two small ones
FollowUpInputs == { <<10, 3>>, <<1, 2>>, <<2, 1>> }

\* options.rules: DEFAULT_RULES, or the same rules in the opposite order
RuleListInputs ==
    { DEFAULT_RULES,
      [k \in DOMAIN DEFAULT_RULES |-> DEFAULT_RULES[Len(DEFAULT_RULES) + 1 - k]] }

InitClassify ==
    /\ timeline \in UNION {ClsTimelines(n) : n \in 0..MaxClsEvents}
    /\ \E rls \in RuleListInputs, f \in FollowUpInputs :
          options = [rules |-> rls, followUpWindow |-> f[1], followUpCount |-> f[2],
                     llm |-> [enabled |-> FALSE]]
    /\ clsIdx = 1
    /\ majorEvents = <<>>
    /\ results = <<>>
    /\ pending = <<>>
    /\ scope = NoScope /\ evidence = <<>> /\ pc = "idle"
    /\ rootIdx = 0 /\ queue = <<>> /\ current = <<>> /\ entries = <<>>
    /\ changed = <<>> /\ trace = <<>> /\ collected = NotCollected
    /\ IdlePaths /\ IdleConflict /\ IdleInsights /\ IdleDerived /\ IdleRules /\ ProgramCap

\* classifyEvents: one turn of the for loop that awaits no summarizer call:
\* no rule matches, or enrichment is disabled
ClassifyStep ==
    /\ Len(results) < MaxCalls
    /\ clsIdx <= Len(timeline)
    /\ pending = <<>>
    /\ LET event == timeline[clsIdx]
           match == TopRule(event, options.rules)
       IN  /\ match = <<>> \/ ~options.llm.enabled
           /\ options' = [options EXCEPT !.rules = RulesAfterTopRule(event, options.rules)]
           /\ majorEvents' =
                 IF match = <<>> THEN majorEvents
                 ELSE Append(majorEvents, MajorEvent(timeline, clsIdx, match[1], options))
    /\ clsIdx' = clsIdx + 1
    /\ UNCHANGED <<results, pending, timeline, scope, evidence, pc, rootIdx, queue, current,
                   entries, changed, trace, collected, pathVars, conflictVars, insightVars, derivedVars, ruleVars, walkVars>>

\* classifyEvents returns majorEvents; the caller calls it again with the
\* same timeline and options
ClassifyReturn ==
    /\ Len(results) < MaxCalls
    /\ clsIdx > Len(timeline)
    /\ pending = <<>>
    /\ results' = Append(results, majorEvents)
    /\ majorEvents' = <<>>
    /\ clsIdx' = 1
    /\ UNCHANGED <<options, pending, timeline, scope, evidence, pc, rootIdx, queue, current,
                   entries, changed, trace, collected, pathVars, conflictVars, insightVars, derivedVars, ruleVars, walkVars>>

NextClassify == ClassifyStep \/ ClassifyReturn

SpecClassify == InitClassify /\ [][NextClassify]_vars

TopKeywords == 16

\* The characters that /[^a-z0-9\s]/g and /\s+/ turn into word breaks, as
\* far as they occur in the modelled texts
WordBreaks == {" ", ":"}

\* `${event.label} ${event.detail}`.toLowerCase().replace(...).split(/\s+/)
\*    .filter((w) => w.length >= 4)
Tokenize(event) ==
    SelectSeq(ToLowerCase(event.label \o <<" ">> \o event.detail),
              LAMBDA w : w \notin WordBreaks /\ Len(w) >= 4)

\* bag.set(word, (bag.get(word) ?? 0) + 1) for each word in turn: a Map
\* keeps its keys in the order of first insertion
RECURSIVE BagAdd(_, _)
BagAdd(bag, words) ==
    IF words = <<>> THEN bag
    ELSE LET w == Head(words)
             at == {k \in DOMAIN bag : bag[k].word = w}
         IN  BagAdd(IF at = {} THEN Append(bag, [word |-> w, count |-> 1])
                    ELSE [k \in DOMAIN bag |->
                             IF k \in at THEN [bag[k] EXCEPT !.count = @ + 1] ELSE bag[k]],
                    Tail(words))

\* [...bag.entries()].sort((a, b) => b[1] - a[1])
SortedByCount(bag) ==
    StableSort(bag, [i \in DOMAIN bag, j \in DOMAIN bag |-> bag[j].count - bag[i].count < 0])

\* .slice(0, n)
Slice0(s, n) == SubSeq(s, 1, IF n < Len(s) THEN n ELSE Len(s))

\* [...new Set(s)]: the first occurrence of each element, in order
Dedupe(s) ==
    SelectSeq([k \in DOMAIN s |-> [v |-> s[k], first |-> \A h \in 1..(k - 1) : s[h] # s[k]]],
              LAMBDA x : x.first)

UniqueTokens(s) == LET d == Dedupe(s) IN [k \in DOMAIN d |-> d[k].v]

\* The words of the timeline, event after event
RECURSIVE TimelineBag(_, _)
TimelineBag(events, bag) ==
    IF events = <<>> THEN bag
    ELSE TimelineBag(Tail(events), BagAdd(bag, Tokenize(Head(events))))

\* bootstrapRulesFromTimeline of packages/event-engine/src/bootstrap.ts: the
\* three most frequent words of the timeline are added to every rule of the
\* exported array DEFAULT_RULES, read as it is when the call is made
BootstrapRulesFromTimeline(events) ==
    LET sorted == Slice0(SortedByCount(TimelineBag(events, <<>>)), TopKeywords)
        top == [k \in DOMAIN sorted |-> <<sorted[k].word>>]
    IN  IF Len(top) = 0 THEN defaultRules
        ELSE [r \in DOMAIN defaultRules |->
                [defaultRules[r] EXCEPT !.anyOf = UniqueTokens(@ \o Slice0(top, 3))]]

\* matchesRuleSeed of the second text
MatchesRuleSeed(rule, text) ==
    /\ \E k \in DOMAIN rule.anyOf : Includes(text, ToLowerCase(rule.anyOf[k]))
    /\ ~(/\ rule.allOf.defined /\ Len(rule.allOf.value) > 0
         /\ \E k \in DOMAIN rule.allOf.value : ~Includes(text, ToLowerCase(rule.allOf.value[k])))
    /\ ~(/\ rule.not.defined /\ Len(rule.not.value) > 0
         /\ \E k \in DOMAIN rule.not.value : Includes(text, ToLowerCase(rule.not.value[k])))

\* ruleBags.get(rule.id) after the loop over the timeline
RECURSIVE RuleBag(_, _, _)
RuleBag(rule, events, bag) ==
    IF events = <<>> THEN bag
    ELSE LET words == Tokenize(Head(events)) IN
         RuleBag(rule, Tail(events),
                 IF words # <<>> /\ MatchesRuleSeed(rule, EventText(Head(events)))
                 THEN BagAdd(bag, words) ELSE bag)

\* top of one rule: words seen at least twice that are not seed tokens
RuleTop(rule, events) ==
    LET bag == RuleBag(rule, events, <<>>)
        kept == SelectSeq(bag, LAMBDA e :
                    /\ e.count >= 2
                    /\ ~\E k \in DOMAIN rule.anyOf : ToLowerCase(rule.anyOf[k]) = <<e.word>>)
        perRule == TopKeywords \div Len(defaultRules)
        sorted == Slice0(SortedByCount(kept), IF perRule > 1 THEN perRule ELSE 1)
    IN  [k \in DOMAIN sorted |-> <<sorted[k].word>>]

\* bootstrapRulesFromTimeline of the second text: each rule gets words of the
\* events that match its seed tokens
BootstrapRulesSeeded(events) ==
    [r \in DOMAIN defaultRules |->
        LET top == RuleTop(defaultRules[r], events) IN
        IF Len(top) = 0 THEN defaultRules[r]
        ELSE [defaultRules[r] EXCEPT !.anyOf = UniqueTokens(@ \o top)]]

(***************************************************************************)
(* Specification SpecBootstrap: rules bootstrapped from the timeline, then *)
(* classifyEvents on that timeline with those rules                        *)
(***************************************************************************)
MaxBootEvents == 3

\* Event texts: the neutral event of the test, an event with seed tokens of
\* goal-delivery, one that shares a word with it and has no seed token, and
\* one with a seed token of red-blocker
BootEventInputs ==
    { ClsEvent("assistant", <<<<"codex">>, <<"assistant_message">>>>,
               <<"edited", " ", "file">>, <<"updated", " ", "tests">>),
      ClsEvent("assistant", <<<<"codex">>, <<"assistant_message">>>>,
               <<"fixed", " ", "login">>, <<"done">>),
      ClsEvent("user", <<<<"codex">>>>,
               <<"login", " ", "page">>, <<"opened">>),
      ClsEvent("system", <<<<"codex">>, <<"system">>>>,
               <<"fatal", " ", "crash">>, <<"login", " ", "page">>) }

BootTimelines(n) ==
    { [i \in 1..n |-> [c[i] EXCEPT !.ts = i] @@ [id |-> ToString(i)]]
      : c \in [1..n -> BootEventInputs] }

InitBootstrap ==
    /\ timeline \in UNION {BootTimelines(n) : n \in 0..MaxBootEvents}
    /\ options = [rules |-> <<>>, followUpWindow |-> 10, followUpCount |-> 3,
                  llm |-> [enabled |-> FALSE]]
    /\ clsIdx = 0
    /\ majorEvents = <<>>
    /\ results = <<>>
    /\ pending = <<>>
    /\ scope = NoScope /\ evidence = <<>> /\ pc = "idle"
    /\ rootIdx = 0 /\ queue = <<>> /\ current = <<>> /\ entries = <<>>
    /\ changed = <<>> /\ trace = <<>> /\ collected = NotCollected
    /\ IdlePaths /\ IdleConflict /\ IdleInsights /\ IdleDerived /\ IdleRules /\ ProgramCap

\* const rules = bootstrapRulesFromTimeline(timeline), bootstrap.ts
BootstrapCall ==
    /\ clsIdx = 0
    /\ options' = [options EXCEPT !.rules = BootstrapRulesFromTimeline(timeline)]
    /\ clsIdx' = 1
    /\ UNCHANGED <<majorEvents, results, pending, timeline, scope, evidence, pc, rootIdx, queue,
                   current, entries, changed, trace, collected, pathVars, conflictVars, insightVars, derivedVars, ruleVars, walkVars>>

\* const rules = bootstrapRulesFromTimeline(timeline), the second text
BootstrapSeededCall ==
    /\ clsIdx = 0
    /\ options' = [options EXCEPT !.rules = BootstrapRulesSeeded(timeline)]
    /\ clsIdx' = 1
    /\ UNCHANGED <<majorEvents, results, pending, timeline, scope, evidence, pc, rootIdx, queue,
                   current, entries, changed, trace, collected, pathVars, conflictVars, insightVars, derivedVars, ruleVars, walkVars>>

NextBootstrap == BootstrapCall \/ BootstrapSeededCall \/ ClassifyStep \/ ClassifyReturn

SpecBootstrap == InitBootstrap /\ [][NextBootstrap]_vars

(***************************************************************************)
(* Properties of RuleBootstrapper, checked under SpecBootstrap             *)
(***************************************************************************)
\* The rule of DEFAULT_RULES with the given id
DefaultRule(id) == DEFAULT_RULES[CHOOSE r \in DOMAIN DEFAULT_RULES : DEFAULT_RULES[r].id = id]

\* The timeline event with the given id
TriggerOf(major) == timeline[CHOOSE i \in DOMAIN timeline : timeline[i].id = major.triggerEventId]

HasSeedToken(major) ==
    LET seed == DefaultRule(major.ruleId).anyOf IN
    \E k \in DOMAIN seed : Includes(EventText(TriggerOf(major)), ToLowerCase(seed[k]))

\* C11: with rules returned by bootstrapRulesFromTimeline(timeline), every
\* major event's trigger text contains at least one anyOf token of the
\* matched rule's default definition; no rule fires on bootstrapped tokens
\* alone.
C11_FiresOnlyWithSeedToken ==
    \A m \in DOMAIN majorEvents : HasSeedToken(majorEvents[m])

(***************************************************************************)
(* Specification SpecRules: classifyEvents with a rule list that uses      *)
(* every field of EventRule                                                *)
(***************************************************************************)
\* An EventRule with its optional fields given as Some(v) or Absent
CustomRule(id, eventType, anyOf, allOf, not, weight, minScore) ==
    [id |-> id, eventType |-> eventType, anyOf |-> anyOf,
     allOf |-> allOf, not |-> not, weight |-> weight, minScore |-> minScore]

CUSTOM_RULES ==
    << CustomRule("strict-goal", "GOAL",
                  << <<"fixed">>, <<"Implemented">>, <<"success">> >>,
                  Absent, Absent, Some(12), Some(30)),
       CustomRule("tool-no-revert", "ASSIST",
                  << <<"tool">>, <<"apply_patch">> >>,
                  Absent, Some(<< <<"revert">> >>), Absent, Absent),
       CustomRule("denied-test", "RED_CARD",
                  << <<"failed">>, <<"denied">> >>,
                  Some(<< <<"test">>, <<"permission", " ", "denied">> >>), Absent,
                  Some(14), Some(10)),
       CustomRule("failed-timeout", "PENALTY",
                  << <<"failed">> >>,
                  Some(<< <<"timeout">> >>), Some(<<>>), Some(11), Some(10)),
       CustomRule("offside", "OFFSIDE",
                  << <<"revert">>, <<"rollback">> >>,
                  Some(<<>>), Absent, Some(10), Absent) >>

MaxRuleEvents == 2

InitRules ==
    /\ timeline \in UNION {ClsTimelines(n) : n \in 0..MaxRuleEvents}
    /\ \E rls \in {DEFAULT_RULES, CUSTOM_RULES}, f \in FollowUpInputs :
          options = [rules |-> rls, followUpWindow |-> f[1], followUpCount |-> f[2],
                     llm |-> [enabled |-> FALSE]]
    /\ clsIdx = 1
    /\ majorEvents = <<>>
    /\ results = <<>>
    /\ pending = <<>>
    /\ scope = NoScope /\ evidence = <<>> /\ pc = "idle"
    /\ rootIdx = 0 /\ queue = <<>> /\ current = <<>> /\ entries = <<>>
    /\ changed = <<>> /\ trace = <<>> /\ collected = NotCollected
    /\ IdlePaths /\ IdleConflict /\ IdleInsights /\ IdleDerived /\ IdleRules /\ ProgramCap

SpecRules == InitRules /\ [][NextClassify]_vars

(***************************************************************************)
(* Properties of topRule and scoreRule, checked under SpecRules            *)
(***************************************************************************)
\* The positions of the timeline that the running call has been through
Classified == {i \in DOMAIN timeline : i < clsIdx}

\* The major events of the running call triggered by the event at position i
MajorsOf(i) == {m \in DOMAIN majorEvents : majorEvents[m].triggerEventId = timeline[i].id}

MinScoreOf(rule) == IF rule.minScore.defined THEN rule.minScore.value ELSE DefaultMinScore

ScoreAt(r, i) == ScoreRule(options.rules[r], timeline[i])

Qualifies(r, i) == ScoreAt(r, i) >= MinScoreOf(options.rules[r])

\* The first rule of options.rules among those of the highest score
HighestRule(i) ==
    CHOOSE r \in DOMAIN options.rules :
       /\ \A q \in DOMAIN options.rules : ScoreAt(q, i) <= ScoreAt(r, i)
       /\ \A q \in 1..(r - 1) : ScoreAt(q, i) < ScoreAt(r, i)

\* C12 as stated: an event gets a major event if and only if the rule of
\* the highest score among all rules reaches its own minScore, and the major
\* event carries that rule's id and eventType.
C12_EmitsIffHighestRuleQualifies ==
    \A i \in Classified :
       LET r == HighestRule(i) IN
       /\ MajorsOf(i) # {} <=> Qualifies(r, i)
       /\ \A m \in MajorsOf(i) :
             /\ majorEvents[m].ruleId = options.rules[r].id
             /\ majorEvents[m].type = options.rules[r].eventType

\* C12 amended: an event gets a major event if and only if some rule reaches
\* its own minScore; the major event carries the id and eventType of a rule
\* whose score is the highest among the rules that reach their minScore.
\* Rules below their minScore are left out before the highest is taken.
C12_EmitsIffSomeRuleQualifies ==
    \A i \in Classified :
       /\ MajorsOf(i) # {} <=> \E r \in DOMAIN options.rules : Qualifies(r, i)
       /\ \A m \in MajorsOf(i) :
             \E r \in DOMAIN options.rules :
                /\ Qualifies(r, i)
                /\ \A q \in DOMAIN options.rules : Qualifies(q, i) => ScoreAt(q, i) <= ScoreAt(r, i)
                /\ majorEvents[m].ruleId = options.rules[r].id
                /\ majorEvents[m].type = options.rules[r].eventType

\* A major event was emitted for a rule although a rule of a higher score,
\* below its own minScore, was there
C12_Witness ==
    \E i \in Classified : \E m \in MajorsOf(i) : \E q \in DOMAIN options.rules :
       /\ ~Qualifies(q, i)
       /\ ScoreAt(q, i) > majorEvents[m].score
       /\ clsIdx > Len(timeline)

\* The rule of options.rules with the given id
RuleById(id) == options.rules[CHOOSE r \in DOMAIN options.rules : options.rules[r].id = id]

\* How many tokens of the list occur in the text
TokensPresent(tokens, text) ==
    Cardinality({k \in DOMAIN tokens : Includes(text, ToLowerCase(tokens[k]))})

\* The tokens of an optional list ([] when the list is not given)
TokensOf(opt) == IF opt.defined THEN opt.value ELSE <<>>

\* The score the rule is to have for the event, in tenths: tokens of anyOf
\* present times weight, 0 when a token of not is present or one of allOf is
\* missing
StatedScore(rule, event) ==
    LET text == ToLowerCase(event.label \o <<" ">> \o event.detail \o <<" ">>
                            \o JoinStrings(event.tags, " "))
    IN  IF TokensPresent(TokensOf(rule.not), text) > 0 THEN 0
        ELSE IF TokensPresent(TokensOf(rule.allOf), text) < Len(TokensOf(rule.allOf)) THEN 0
        ELSE TokensPresent(rule.anyOf, text)
                * (IF rule.weight.defined THEN rule.weight.value ELSE 10)

\* C13: a rule's score for an event is the number of its anyOf tokens that
\* occur in the lowercased "label detail tags" text times weight (default
\* 1), and 0 whenever a not token occurs or an allOf token does not.  Seen
\* from the outside: a major event carries the stated score of its rule, and
\* an event without a major event has no rule whose stated score reaches
\* the rule's minScore.
C13_ScoreIsCountTimesWeight ==
    \A i \in Classified :
       /\ \A m \in MajorsOf(i) :
             majorEvents[m].score = StatedScore(RuleById(majorEvents[m].ruleId), timeline[i])
       /\ MajorsOf(i) = {} =>
             \A r \in DOMAIN options.rules :
                StatedScore(options.rules[r], timeline[i]) < MinScoreOf(options.rules[r])

\* The call went through an event that holds an anyOf token and a not token
\* of one rule, an event that holds an anyOf token of a rule and misses one
\* of its allOf tokens, and emitted a major event for two anyOf tokens
C13_Witness ==
    /\ clsIdx > Len(timeline)
    /\ \E i \in Classified, r \in DOMAIN options.rules :
          /\ TokensPresent(options.rules[r].anyOf, EventText(timeline[i])) > 0
          /\ TokensPresent(TokensOf(options.rules[r].not), EventText(timeline[i])) > 0
    /\ \E i \in Classified, r \in DOMAIN options.rules :
          /\ TokensPresent(options.rules[r].anyOf, EventText(timeline[i])) > 0
          /\ TokensPresent(TokensOf(options.rules[r].allOf), EventText(timeline[i]))
                < Len(TokensOf(options.rules[r].allOf))
    /\ \E i \in Classified : \E m \in MajorsOf(i) :
          /\ TokensPresent(RuleById(majorEvents[m].ruleId).anyOf, EventText(timeline[i])) = 2
          /\ majorEvents[m].score = 28

(***************************************************************************)
(* Properties of classifyEvents, checked under SpecClassify                *)
(***************************************************************************)
\* The position of the trigger of a major event in the timeline
TriggerIndex(major) == CHOOSE i \in DOMAIN timeline : timeline[i].id = major.triggerEventId

\* The position in options.rules of the rule with the given id
RuleIndex(id) == CHOOSE r \in DOMAIN options.rules : options.rules[r].id = id

\* C14: classifyEvents produces at most one MajorEvent per timeline event
\* and emits them in timeline order; when several rules tie for the best
\* qualifying score, the rule that comes first in options.rules is chosen.
C14_OnePerEventInOrderFirstOfTies ==
    /\ \A i \in DOMAIN timeline : Cardinality(MajorsOf(i)) <= 1
    /\ \A m, n \in DOMAIN majorEvents :
          m < n => TriggerIndex(majorEvents[m]) < TriggerIndex(majorEvents[n])
    /\ \A m \in DOMAIN majorEvents :
          LET i == TriggerIndex(majorEvents[m])
              r == RuleIndex(majorEvents[m].ruleId)
          IN  \A q \in DOMAIN options.rules :
                 Qualifies(q, i) =>
                    \/ ScoreAt(q, i) < ScoreAt(r, i)
                    \/ ScoreAt(q, i) = ScoreAt(r, i) /\ r <= q

\* The call emitted two major events, one of them for an event on which
\* two rules tie for the best score
C14_Witness ==
    /\ clsIdx > Len(timeline)
    /\ Len(majorEvents) >= 2
    /\ \E m \in DOMAIN majorEvents :
          LET i == TriggerIndex(majorEvents[m])
              r == RuleIndex(majorEvents[m].ruleId)
          IN  \E q \in DOMAIN options.rules : q > r /\ ScoreAt(q, i) = ScoreAt(r, i)

Min(a, b) == IF a < b THEN a ELSE b

\* C15: for a major event triggered at timeline position i, followUpEventIds
\* is exactly the ids of the next min(followUpWindow, followUpCount) events
\* after i, cut at the end of the timeline, in timeline order: chosen by
\* position, never by timestamp.
C15_FollowUpsAreNextByIndex ==
    \A m \in DOMAIN majorEvents :
       LET i == TriggerIndex(majorEvents[m])
           n == Min(Min(options.followUpWindow, options.followUpCount), Len(timeline) - i)
           ids == majorEvents[m].followUpEventIds
       IN  /\ Len(ids) = n
           /\ \A k \in 1..n : ids[k] = timeline[i + k].id

\* The call emitted a major event whose follow-ups are cut by the window or
\* the count and not by the end of the timeline, and whose first follow-up
\* has the ts of the trigger; and one whose follow-ups end with the timeline
C15_Witness ==
    /\ clsIdx > Len(timeline)
    /\ \E m \in DOMAIN majorEvents :
          LET i == TriggerIndex(majorEvents[m]) IN
          /\ Len(majorEvents[m].followUpEventIds) < Len(timeline) - i
          /\ Len(majorEvents[m].followUpEventIds) >= 1
          /\ timeline[i + 1].ts = timeline[i].ts
    /\ \E m \in DOMAIN majorEvents :
          /\ TriggerIndex(majorEvents[m]) = Len(timeline)
          /\ majorEvents[m].followUpEventIds = <<>>

(***************************************************************************)
(* Enrichment: classify.ts lines 71-84, llm-adapters/src/index.ts          *)
(***************************************************************************)
\* LLMProviderConfig inputs: enabled with a key, enabled without one, disabled
LlmConfigInputs ==
    { [provider |-> "openai", apiKey |-> "key", model |-> "m", enabled |-> TRUE],
      [provider |-> "openai", apiKey |-> "", model |-> "m", enabled |-> TRUE],
      [provider |-> "openai", apiKey |-> "key", model |-> "m", enabled |-> FALSE] }

\* What awaiting summarizeMajorEventWithLLM can come to: a text, the empty
\* string ("" without a key, or a reply whose text trims to ""), a rejection
\* (fetch fails, the status is not ok, the body does not parse), or nothing
\* at all: postJson passes no signal and no timeout to fetch
SummarizerOutcomes(config) ==
    IF ~config.enabled \/ config.apiKey = "" THEN {"empty"}
    ELSE {"summary", "empty", "throws", "never"}

\* The text of a reply
LlmSummary == <<"headline">>

MaxEnrichEvents == 2

InitEnrich ==
    /\ timeline \in UNION {ClsTimelines(n) : n \in 0..MaxEnrichEvents}
    /\ \E config \in LlmConfigInputs :
          options = [rules |-> DEFAULT_RULES, followUpWindow |-> 10, followUpCount |-> 3,
                     llm |-> config]
    /\ clsIdx = 1
    /\ majorEvents = <<>>
    /\ results = <<>>
    /\ pending = <<>>
    /\ scope = NoScope /\ evidence = <<>> /\ pc = "idle"
    /\ rootIdx = 0 /\ queue = <<>> /\ current = <<>> /\ entries = <<>>
    /\ changed = <<>> /\ trace = <<>> /\ collected = NotCollected
    /\ IdlePaths /\ IdleConflict /\ IdleInsights /\ IdleDerived /\ IdleRules /\ ProgramCap

\* classifyEvents: a rule matches and options.llm.enabled holds; major is
\* built and the call of summarizeMajorEventWithLLM is awaited
EnrichStart ==
    /\ Len(results) < MaxCalls
    /\ clsIdx <= Len(timeline)
    /\ pending = <<>>
    /\ options.llm.enabled
    /\ LET event == timeline[clsIdx]
           match == TopRule(event, options.rules)
       IN  /\ match # <<>>
           /\ options' = [options EXCEPT !.rules = RulesAfterTopRule(event, options.rules)]
           /\ \E o \in SummarizerOutcomes(options.llm) :
                 pending' = <<[major |-> MajorEvent(timeline, clsIdx, match[1], options),
                               outcome |-> o]>>
    /\ UNCHANGED <<clsIdx, majorEvents, results, timeline, scope, evidence, pc, rootIdx,
                   queue, current, entries, changed, trace, collected, pathVars,
                   conflictVars, insightVars, derivedVars, ruleVars, walkVars>>

\* The awaited call returns llmSummary: if (llmSummary) major.summary =
\* llmSummary; then majorEvents.push(major)
EnrichResolve ==
    /\ pending # <<>>
    /\ pending[1].outcome \in {"summary", "empty"}
    /\ LET llmSummary == IF pending[1].outcome = "summary" THEN LlmSummary ELSE <<>>
           major == pending[1].major
       IN  majorEvents' = Append(majorEvents,
                                 IF llmSummary # <<>> THEN [major EXCEPT !.summary = llmSummary]
                                 ELSE major)
    /\ pending' = <<>>
    /\ clsIdx' = clsIdx + 1
    /\ UNCHANGED <<options, results, timeline, scope, evidence, pc, rootIdx, queue, current,
                   entries, changed, trace, collected, pathVars, conflictVars, insightVars, derivedVars, ruleVars, walkVars>>

\* A catch block that gives the event up
EnrichCatchSkipsEvent ==
    /\ pending # <<>>
    /\ pending[1].outcome = "throws"
    /\ pending' = <<>>
    /\ clsIdx' = clsIdx + 1
    /\ UNCHANGED <<majorEvents, options, results, timeline, scope, evidence, pc, rootIdx,
                   queue, current, entries, changed, trace, collected, pathVars,
                   conflictVars, insightVars, derivedVars, ruleVars, walkVars>>

\* The awaited call throws: the empty catch block, then majorEvents.push(major)
EnrichCatch ==
    /\ pending # <<>>
    /\ pending[1].outcome = "throws"
    /\ majorEvents' = Append(majorEvents, pending[1].major)
    /\ pending' = <<>>
    /\ clsIdx' = clsIdx + 1
    /\ UNCHANGED <<options, results, timeline, scope, evidence, pc, rootIdx, queue, current,
                   entries, changed, trace, collected, pathVars, conflictVars, insightVars, derivedVars, ruleVars, walkVars>>

NextEnrich == ClassifyStep \/ EnrichStart \/ EnrichResolve \/ EnrichCatch \/ ClassifyReturn

SpecEnrich == InitEnrich /\ [][NextEnrich]_vars

\* A summarizer call that settles is taken up by the awaiting loop, and a
\* finished loop returns: the event loop runs every continuation that is ready
SpecEnrichFair ==
    SpecEnrich /\ WF_vars(EnrichResolve) /\ WF_vars(EnrichCatch) /\ WF_vars(ClassifyReturn)

(***************************************************************************)
(* Properties of enrichment                                                *)
(***************************************************************************)
\* The major events classifyEvents gives for the timeline with enrichment
\* disabled
RECURSIVE RuleDerivedFrom(_)
RuleDerivedFrom(i) ==
    IF i > Len(timeline) THEN <<>>
    ELSE LET match == TopRule(timeline[i], options.rules) IN
         (IF match = <<>> THEN <<>> ELSE <<MajorEvent(timeline, i, match[1], options)>>)
            \o RuleDerivedFrom(i + 1)

RuleDerived == RuleDerivedFrom(1)

\* The list with every summary blanked
WithoutSummary(majors) == [m \in DOMAIN majors |-> [majors[m] EXCEPT !.summary = <<>>]]

\* C16: enrichment failure is never fatal.  With llm.enabled, when the
\* summarizer call for a major event throws or returns the empty string, the
\* event is emitted with its rule-derived summary (the first 220 characters
\* of the trigger's detail), and every list classifyEvents returns holds the
\* same major events in the same order, equal in all other fields, as with
\* enrichment disabled.
C16_EnrichmentFailureKeepsRuleSummary ==
    /\ [](\A k \in DOMAIN results : WithoutSummary(results[k]) = WithoutSummary(RuleDerived))
    /\ [][ (pending # <<>> /\ pending[1].outcome \in {"throws", "empty"} /\ pending' = <<>>)
             => /\ Len(majorEvents') = Len(majorEvents) + 1
                /\ majorEvents'[Len(majorEvents')].summary =
                      Slice0(TriggerOf(pending[1].major).detail, 220)
                /\ WithoutSummary(majorEvents') = Slice0(WithoutSummary(RuleDerived), Len(majorEvents'))
          ]_vars

\* A call with enrichment enabled and a key has returned two major events:
\* the summarizer threw for the first and answered for the second
C16_Witness ==
    /\ options.llm.enabled /\ options.llm.apiKey # ""
    /\ Len(results) >= 1
    /\ Len(results[1]) = 2
    /\ results[1][1].summary = Slice0(timeline[1].detail, 220)
    /\ results[1][2].summary = LlmSummary

\* C17: with enrichment enabled, a slow or never-completing enrichment call
\* does not block classifyEvents beyond that call's own timeout: whenever the
\* loop awaits a summarizer call, it eventually gets past it and goes on to
\* the later events.
C17_AwaitedCallIsLeftBehind == (pending # <<>>) ~> (pending = <<>>)

(***************************************************************************)
(* InsightsEngine: insights.ts.  Texts are sequences of atoms: words, the  *)
(* space " ", and single punctuation or markdown characters.               *)
(***************************************************************************)
\* EN_STOPWORDS
EN_STOPWORDS ==
    {"the", "a", "an", "and", "or", "to", "for", "in", "of", "on", "at", "is", "are",
     "was", "were", "be", "been", "with", "that", "this", "it", "what", "which", "did",
     "do", "does", "yesterday", "today", "last", "days", "day", "project", "repo",
     "folder", "workspace", "please", "need", "type", "input", "text", "go", "ahead",
     "implement", "plan"}

\* The characters stripMarkdown replaces by a space (the backtick is written
\* as the atom "backtick")
MarkdownChars == {"backtick", "*", "_", "#", "<", ">", "[", "]"}

\* Characters outside /[\p{L}\p{N}\s._/\-]/ that occur in the modelled texts
UnsafeChars == MarkdownChars \cup {",", "?", "!", ":"}

\* .replace(/\s+/g, " ").trim(): runs of spaces become one, none at the ends
RECURSIVE CollapseSpaces(_, _)
CollapseSpaces(text, acc) ==
    IF text = <<>> THEN (IF acc # <<>> /\ acc[Len(acc)] = " " THEN SubSeq(acc, 1, Len(acc) - 1)
                         ELSE acc)
    ELSE IF Head(text) = " " /\ (acc = <<>> \/ acc[Len(acc)] = " ")
    THEN CollapseSpaces(Tail(text), acc)
    ELSE CollapseSpaces(Tail(text), Append(acc, Head(text)))

\* stripMarkdown
StripMarkdown(text) ==
    CollapseSpaces([i \in DOMAIN text |-> IF text[i] \in MarkdownChars THEN " " ELSE text[i]],
                   <<>>)

\* The atoms that open and close a JSON-like "text" field: {"text": " and "}
JsonTextOpen == "{\"text\":\""
JsonTextClose == "\"}"

\* extractTextFieldFromJsonLike: the captured text field, cleaned; <<>> for null
ExtractTextFieldFromJsonLike(text) ==
    LET opens == {i \in DOMAIN text : text[i] = JsonTextOpen} IN
    IF opens = {} THEN <<>>
    ELSE LET start == CHOOSE i \in opens : \A j \in opens : i <= j
             closes == {i \in DOMAIN text : i > start /\ text[i] = JsonTextClose}
             stop == IF closes = {} THEN Len(text) + 1
                     ELSE CHOOSE i \in closes : \A j \in closes : i <= j
         IN  StripMarkdown(SubSeq(text, start + 1, stop - 1))

\* cleaned.length > 1500 ? cleaned.slice(0, 1500) + "..." : cleaned
ReadableLimit == 1500

\* extractReadableText, for payloads that are plain text or hold a JSON-like
\* text field
ExtractReadableText(raw) ==
    LET trimmed == CollapseSpaces(raw, <<>>)
        regexText == ExtractTextFieldFromJsonLike(trimmed)
        cleaned == StripMarkdown(trimmed)
    IN  IF trimmed = <<>> THEN <<>>
        ELSE IF regexText # <<>> THEN regexText
        ELSE IF Len(cleaned) > ReadableLimit
        THEN Append(SubSeq(cleaned, 1, ReadableLimit), "...")
        ELSE cleaned

\* isBoilerplateInstruction
IsBoilerplateInstruction(text) ==
    LET normalized == ToLowerCase(text) IN
    \/ StartsWith(normalized, <<"#", " ", "agents.md", " ", "instructions">>)
    \/ StartsWith(normalized, <<"<", "environment", "_", "context", ">">>)
    \/ StartsWith(normalized, <<"environment", " ", "context">>)
    \/ /\ Includes(normalized, <<"cwd", " ", "/users/">>)
       /\ Includes(normalized, <<"shell", " ", "zsh">>)
    \/ Includes(normalized, <<"a", " ", "skill", " ", "is", " ", "a", " ", "set", " ", "of",
                              " ", "local", " ", "instructions">>)
    \/ Includes(normalized, <<"turn", " ", "aborted", " ", "by", " ", "user">>)
    \/ Includes(normalized, <<"turn", " ", "aborted">>)

\* normalizeInstructionText
NormalizeInstructionText(text) ==
    LET lower == ToLowerCase(text) IN
    CollapseSpaces([i \in DOMAIN lower |-> IF lower[i] \in UnsafeChars THEN " " ELSE lower[i]],
                   <<>>)

\* tokenize: the runs of two or more characters that are no stopwords, at
\* most 14
TokenLimit == 14

TokenizeInstruction(text) ==
    Slice0(SelectSeq(ToLowerCase(text),
                     LAMBDA w : w # " " /\ w \notin UnsafeChars /\ w # "." /\ Len(w) >= 2
                                /\ w \notin EN_STOPWORDS),
           TokenLimit)

\* topTopicTokens
TopTopicTokens(tokens) == Slice0(SelectSeq(tokens, LAMBDA t : Len(t) > 1), 3)

\* text.length, in characters
RECURSIVE CharLength(_)
CharLength(text) == IF text = <<>> THEN 0 ELSE Len(Head(text)) + CharLength(Tail(text))

\* /^(go|go on|continue|ok|okay|yes|done|run|...)$/
TrivialPhrases ==
    { <<"go">>, <<"go", " ", "on">>, <<"continue">>, <<"ok">>, <<"okay">>, <<"yes">>,
      <<"done">>, <<"run">> }

\* /^\d+\s*\.?\s*(go|go on|go ahead|continue)$/
NumberedPhrases ==
    { <<"go">>, <<"go", " ", "on">>, <<"go", " ", "ahead">>, <<"continue">> }

Digits == {"1", "2", "3"}

IsNumberedGo(normalized) ==
    /\ normalized # <<>>
    /\ normalized[1] \in Digits
    /\ \E ph \in NumberedPhrases, mid \in {<<>>, <<" ">>, <<".">>, <<" ", ".">>, <<".", " ">>,
                                           <<" ", ".", " ">>} :
          normalized = <<normalized[1]>> \o mid \o ph

\* isTrivialInstruction
IsTrivialInstruction(instruction) ==
    \/ instruction.normalized = <<>>
    \/ instruction.normalized \in TrivialPhrases
    \/ IsNumberedGo(instruction.normalized)
    \/ Len(instruction.tokens) <= 1 /\ CharLength(instruction.normalized) <= 8

\* The UserInstruction of one user event
InstructionOf(event) ==
    LET text == ExtractReadableText(event.detail)
        normalized == NormalizeInstructionText(text)
    IN  [id |-> StableId(<<"instruction", event.id>>),
         ts |-> event.ts,
         text |-> text,
         normalized |-> normalized,
         tokens |-> TokenizeInstruction(normalized),
         sourceEventId |-> event.id]

\* buildUserInstructions
BuildUserInstructions(events) ==
    LET users == SelectSeq(events, LAMBDA e : e.actor = "user")
        mapped == [k \in DOMAIN users |-> InstructionOf(users[k])]
        kept == SelectSeq(mapped, LAMBDA x : Len(x.text) > 0 /\ ~IsBoilerplateInstruction(x.text))
    IN  StableSort(kept, [i \in DOMAIN kept, j \in DOMAIN kept |-> kept[i].ts - kept[j].ts < 0])

\* The words of hasStuckLanguage's pattern that occur in the modelled texts
StuckWords == {"again", "still", "retry", "cannot", "failed", "error"}

\* hasStuckLanguage: the joined lower-cased texts hold a stuck marker
HasStuckLanguage(texts) ==
    LET merged == ToLowerCase(JoinStrings(texts, " ")) IN
    \/ \E i \in DOMAIN merged : merged[i] \in StuckWords
    \/ Includes(merged, <<"not", " ", "work">>)

\* binarySearchLeft: the loop, with left and right as the code keeps them
RECURSIVE BinarySearchLeftLoop(_, _, _, _)
BinarySearchLeftLoop(sortedTs, target, left, right) ==
    IF left < right
    THEN LET mid == (left + right) \div 2 IN
         IF sortedTs[mid + 1] < target
         THEN BinarySearchLeftLoop(sortedTs, target, mid + 1, right)
         ELSE BinarySearchLeftLoop(sortedTs, target, left, mid)
    ELSE left

BinarySearchLeft(sortedTs, target) == BinarySearchLeftLoop(sortedTs, target, 0, Len(sortedTs))

\* a right search that stops before the timestamps equal to the target
BinarySearchRightExclusive(sortedTs, target) == BinarySearchLeft(sortedTs, target)

\* binarySearchRight
RECURSIVE BinarySearchRightLoop(_, _, _, _)
BinarySearchRightLoop(sortedTs, target, left, right) ==
    IF left < right
    THEN LET mid == (left + right) \div 2 IN
         IF sortedTs[mid + 1] <= target
         THEN BinarySearchRightLoop(sortedTs, target, mid + 1, right)
         ELSE BinarySearchRightLoop(sortedTs, target, left, mid)
    ELSE left

BinarySearchRight(sortedTs, target) == BinarySearchRightLoop(sortedTs, target, 0, Len(sortedTs))

Max(a, b) == IF a > b THEN a ELSE b

\* The for loop of computeFileChangeAroundInstructions
RECURSIVE FileChangeTotal(_, _, _)
FileChangeTotal(instructionTs, tsList, windowMs) ==
    IF instructionTs = <<>> THEN 0
    ELSE LET ts == Head(instructionTs)
             start == BinarySearchLeft(tsList, ts - windowMs)
             end == BinarySearchRight(tsList, ts + windowMs)
         IN  Max(0, end - start) + FileChangeTotal(Tail(instructionTs), tsList, windowMs)

\* computeFileChangeAroundInstructions
ComputeFileChangeAroundInstructions(instructionTs, evid, windowMs) ==
    LET changes == SelectSeq(evid, LAMBDA item : item.type = "file_change")
        fileChanges == StableSort(changes, [i \in DOMAIN changes, j \in DOMAIN changes |->
                                               changes[i].ts - changes[j].ts < 0])
    IN  IF Len(fileChanges) = 0 \/ Len(instructionTs) = 0 THEN 0
        ELSE FileChangeTotal(instructionTs, [k \in DOMAIN fileChanges |-> fileChanges[k].ts],
                             windowMs)

\* inferRepetitionInterpretation that reports a stuck issue for either kind
InferIgnoringKind(kind, count, texts, fileChangeAround) ==
    IF count >= 3 /\ (HasStuckLanguage(texts) \/ fileChangeAround <= 1)
    THEN "stuck_issue"
    ELSE IF count >= 3 /\ fileChangeAround >= Max(2, count - 1)
    THEN "feature_polish"
    ELSE "normal_iteration"

\* inferRepetitionInterpretation
InferRepetitionInterpretation(kind, count, texts, fileChangeAround) ==
    IF count >= 3 /\ kind = "exact_repeat" /\ (HasStuckLanguage(texts) \/ fileChangeAround <= 1)
    THEN "stuck_issue"
    ELSE IF count >= 3 /\ fileChangeAround >= Max(2, count - 1)
    THEN "feature_polish"
    ELSE "normal_iteration"

\* 20 * 60 * 1000 ms; the modelled timestamps count minutes
RepetitionWindow == 20

\* .slice(0, 12) of the sorted candidates
MaxClusters == 12

\* The keys of a Map filled by the loop, in insertion order
MapKeys(keys) == UniqueTokens(SelectSeq(keys, LAMBDA k : k # <<>>))

\* stableId of parts that are texts of several words
StableIdOf(parts) == [sha1 |-> JoinStrings(parts, "|")]

\* One candidate of buildRepetitionClusters
RepetitionCandidate(kind, key, topic, group, evid) ==
    [id |-> StableIdOf(<<<<"repeat">>, <<IF kind = "exact_repeat" THEN "exact" ELSE "topic">>,
                         key>>),
     topic |-> topic,
     kind |-> kind,
     instructionIds |-> [k \in DOMAIN group |-> group[k].id],
     count |-> Len(group),
     interpretation |->
         InferRepetitionInterpretation(
             kind, Len(group), [k \in DOMAIN group |-> group[k].text],
             ComputeFileChangeAroundInstructions([k \in DOMAIN group |-> group[k].ts], evid,
                                                 RepetitionWindow))]

\* tokens.join(sep), the tokens being single words
JoinTokens(tokens, sep) == JoinStrings([k \in DOMAIN tokens |-> <<tokens[k]>>], sep)

\* a topic loop that skips every group holding two instructions of the same
\* normalized text
TopicGroupWithoutDuplicates(group) ==
    /\ Len(group) >= 2
    /\ \A g, h \in DOMAIN group : g # h => group[g].normalized # group[h].normalized

\* the topic loop: if (group.length < 2) continue; if (allNormalizedEqual) continue
TopicGroupEmitted(group) ==
    /\ Len(group) >= 2
    /\ ~(\A g \in DOMAIN group : group[g].normalized = group[1].normalized)

\* buildRepetitionClusters
BuildRepetitionClusters(instructions, evid) ==
    LET scoped == SelectSeq(instructions, LAMBDA item : ~IsTrivialInstruction(item))
        topicKey(item) == JoinTokens(TopTopicTokens(item.tokens), "|")
        normKeys == MapKeys([k \in DOMAIN scoped |-> scoped[k].normalized])
        topicKeys == MapKeys([k \in DOMAIN scoped |-> topicKey(scoped[k])])
        byNormalized(key) == SelectSeq(scoped, LAMBDA item : item.normalized = key)
        byTopic(key) == SelectSeq(scoped, LAMBDA item : topicKey(item) = key)
        exactAll == [k \in DOMAIN normKeys |->
                        LET group == byNormalized(normKeys[k])
                            named == JoinTokens(Slice0(group[1].tokens, 3), " / ")
                        IN  [keep |-> Len(group) >= 2,
                             c |-> RepetitionCandidate(
                                       "exact_repeat", normKeys[k],
                                       IF named # <<>> THEN named ELSE normKeys[k],
                                       group, evid)]]
        topicAll == [k \in DOMAIN topicKeys |->
                        LET group == byTopic(topicKeys[k]) IN
                        [keep |-> TopicGroupEmitted(group),
                         c |-> RepetitionCandidate(
                                   "topic_repeat", topicKeys[k],
                                   [i \in DOMAIN topicKeys[k] |->
                                       IF topicKeys[k][i] = "|" THEN " / "
                                       ELSE topicKeys[k][i]],
                                   group, evid)]]
        kept == SelectSeq(exactAll \o topicAll, LAMBDA x : x.keep)
        candidates == [k \in DOMAIN kept |-> kept[k].c]
        sorted == StableSort(candidates,
                      [i \in DOMAIN candidates, j \in DOMAIN candidates |->
                          IF candidates[j].count # candidates[i].count
                          THEN candidates[j].count - candidates[i].count < 0
                          ELSE candidates[i].kind = "exact_repeat"
                               /\ candidates[j].kind = "topic_repeat"])
        capped == Slice0(sorted, MaxClusters)
    IN  [k \in DOMAIN capped |->
            [capped[k] EXCEPT !.topic = IF @ = <<>> THEN <<"general">> ELSE @]]

\* matchProjectRoot; a single scope holds its one project
MatchProjectRoot(sc, path, projectId) ==
    IF sc.mode = "single" THEN Some(sc.projects[1].root)
    ELSE LET byId == {k \in DOMAIN sc.projects : sc.projects[k].id = projectId}
             byRoot == {k \in DOMAIN sc.projects : StartsWith(path, sc.projects[k].root)}
             first(S) == CHOOSE k \in S : \A h \in S : k <= h
         IN  IF projectId # Undefined /\ byId # {} THEN Some(sc.projects[first(byId)].root)
             ELSE IF byRoot # {} THEN Some(sc.projects[first(byRoot)].root)
             ELSE Absent

\* relative(from, to) of node:path, as segments: one ".." for every segment
\* of from below the common prefix, then the rest of to
RECURSIVE RelativeSegments(_, _)
RelativeSegments(from, to) ==
    IF from # <<>> /\ to # <<>> /\ Head(from) = Head(to)
    THEN RelativeSegments(Tail(from), Tail(to))
    ELSE [k \in DOMAIN from |-> <<"..">>] \o to

\* deriveArea: the first two segments of the path below the project root
DeriveArea(sc, pathRaw, projectId) ==
    LET path == NormalizeResolve(pathRaw)
        root == MatchProjectRoot(sc, path, projectId)
        segs == PathSegments(path)
        base == IF segs = <<>> THEN <<>> ELSE segs[Len(segs)]
        parts == IF root.defined THEN RelativeSegments(PathSegments(root.value), segs)
                 ELSE IF segs = <<>> THEN <<>> ELSE <<base>>
    IN  IF Len(parts) = 0 THEN base
        ELSE IF Len(parts) = 1 THEN parts[1]
        ELSE parts[1] \o <<"/">> \o parts[2]

\* The Map key of buildFeatureDeltas: projectId ?? "-", "|", area
AreaKey(sc, item) ==
    <<IF item.projectId = Undefined THEN "-" ELSE item.projectId, "|">>
        \o DeriveArea(sc, item.sourcePath, item.projectId)

\* .slice(0, 10) of the sorted area groups
MaxDeltas == 10

\* Number(Math.min(0.99, confidenceSum / Math.max(1, count)).toFixed(3)),
\* confidences in hundredths, the result in thousandths
DeltaConfidence(confidenceSum, count) == Min(990, (confidenceSum * 10) \div Max(1, count))

\* existing.confidenceSum += item.confidence, over the items of a group
RECURSIVE ConfidenceSum(_)
ConfidenceSum(group) ==
    IF group = <<>> THEN 0 ELSE Head(group).confidence + ConfidenceSum(Tail(group))

\* One FileAreaGroup of buildFeatureDeltas, from the file changes of one key
FileAreaGroup(sc, group) ==
    LET tss == {group[k].ts : k \in DOMAIN group}
    IN  [area |-> DeriveArea(sc, group[1].sourcePath, group[1].projectId),
         projectId |-> group[1].projectId,
         files |-> {group[k].sourcePath : k \in DOMAIN group},
         evidenceIds |-> [k \in DOMAIN group |-> group[k].id],
         confidenceSum |-> ConfidenceSum(group),
         count |-> Len(group),
         firstTs |-> CHOOSE t \in tss : \A u \in tss : t <= u,
         lastTs |-> CHOOSE t \in tss : \A u \in tss : t >= u]

\* The values of the byArea Map, in insertion order
GroupsByArea(sc, fileChanges) ==
    LET keys == MapKeys([k \in DOMAIN fileChanges |-> AreaKey(sc, fileChanges[k])])
    IN  [k \in DOMAIN keys |->
            FileAreaGroup(sc, SelectSeq(fileChanges, LAMBDA item : AreaKey(sc, item) = keys[k]))]

\* .sort(by count, then lastTs, both descending).slice(0, 10)
RankedGroups(groups) ==
    Slice0(StableSort(groups,
               [i \in DOMAIN groups, j \in DOMAIN groups |->
                   IF groups[j].count # groups[i].count
                   THEN groups[j].count - groups[i].count < 0
                   ELSE groups[j].lastTs - groups[i].lastTs < 0]),
           MaxDeltas)

\* The FeatureDelta of one group, for evidence that holds no user_text,
\* assistant_text or tool_result item: findNearestEvidence then finds no
\* neighbour, before and after are the fallback sentences about the area, and
\* basis is the group's own evidence
FeatureDelta(group) ==
    [id |-> StableIdOf(<< <<"delta">>,
                          <<IF group.projectId = Undefined THEN "-" ELSE group.projectId>>,
                          group.area,
                          <<ToString(group.firstTs)>>,
                          <<ToString(group.lastTs)>> >>),
     area |-> group.area,
     files |-> group.files,
     basis |-> Slice0(group.evidenceIds, 8),
     confidence |-> DeltaConfidence(group.confidenceSum, group.count)]

\* buildFeatureDeltas; each stage is computed once from the one before
BuildFeatureDeltas(sc, evid) ==
    LET fileChanges == SelectSeq(evid, LAMBDA item : item.type = "file_change") IN
    IF Len(fileChanges) = 0 THEN <<>>
    ELSE CHOOSE deltas \in
             { [k \in DOMAIN ranked |-> FeatureDelta(ranked[k])] :
                   ranked \in { RankedGroups(groups) :
                                    groups \in {GroupsByArea(sc, fileChanges)} } } : TRUE

\* 2 * 60 * 60 * 1000 ms, in minutes
MaxGap == 120

MaxEventsPerSegment == 1200

\* .slice(0, 8) of the segments
MaxSegments == 8

\* The limits splitSegments runs with
SegmentLimits ==
    [maxGap |-> MaxGap, maxEventsPerSegment |-> MaxEventsPerSegment,
     maxSegments |-> MaxSegments]

\* The for loop of splitSegments with a gap of exactly maxGap taken as a
\* pause
RECURSIVE SplitSegmentsLoopAtGap(_, _, _, _)
SplitSegmentsLoopAtGap(events, segments, cur, limits) ==
    IF events = <<>>
    THEN (IF Len(cur.events) > 0 THEN Append(segments, cur) ELSE segments)
    ELSE LET event == Head(events)
             hitGap == /\ cur.events # <<>>
                       /\ event.ts - cur.events[Len(cur.events)].ts >= limits.maxGap
             hitSize == Len(cur.events) >= limits.maxEventsPerSegment
         IN  IF Len(cur.events) > 0 /\ (hitGap \/ hitSize)
             THEN SplitSegmentsLoopAtGap(Tail(events), Append(segments, cur),
                      [start |-> event.ts, end |-> event.ts, events |-> <<event>>], limits)
             ELSE SplitSegmentsLoopAtGap(Tail(events), segments,
                      [cur EXCEPT !.events = Append(@, event), !.end = event.ts], limits)

\* splitSegments: the for loop, segments pushed so far and the current one;
\* limits holds maxGap and maxEventsPerSegment
RECURSIVE SplitSegmentsLoop(_, _, _, _)
SplitSegmentsLoop(events, segments, cur, limits) ==
    IF events = <<>>
    THEN (IF Len(cur.events) > 0 THEN Append(segments, cur) ELSE segments)
    ELSE LET event == Head(events)
             hitGap == /\ cur.events # <<>>
                       /\ event.ts - cur.events[Len(cur.events)].ts > limits.maxGap
             hitSize == Len(cur.events) >= limits.maxEventsPerSegment
         IN  IF Len(cur.events) > 0 /\ (hitGap \/ hitSize)
             THEN SplitSegmentsLoop(Tail(events), Append(segments, cur),
                      [start |-> event.ts, end |-> event.ts, events |-> <<event>>], limits)
             ELSE SplitSegmentsLoop(Tail(events), segments,
                      [cur EXCEPT !.events = Append(@, event), !.end = event.ts], limits)

\* splitSegments, its three constants handed over as limits
SplitSegmentsWithin(events, limits) ==
    IF Len(events) = 0 THEN <<>>
    ELSE Slice0(SplitSegmentsLoop(events, <<>>,
                                  [start |-> events[1].ts, end |-> events[1].ts,
                                   events |-> <<>>],
                                  limits),
                limits.maxSegments)

\* splitSegments without the early return for an empty timeline and without
\* the test that the last segment holds an event
SplitSegmentsPushesEmpty(events) ==
    IF Len(events) = 0 THEN <<[start |-> 0, end |-> 0, events |-> <<>>]>>
    ELSE SplitSegmentsWithin(events, SegmentLimits)

\* splitSegments
SplitSegments(events) == SplitSegmentsWithin(events, SegmentLimits)

\* phaseTitle, without its "Phase n:" prefix
PhaseTitle(segment, majors, evid) ==
    LET within(item) == item.ts >= segment.start /\ item.ts <= segment.end IN
    IF \E k \in DOMAIN majors : majors[k].type = "GOAL" /\ within(majors[k])
    THEN "Delivery progress"
    ELSE IF \E k \in DOMAIN majors :
                majors[k].type \in {"PENALTY", "YELLOW_CARD", "RED_CARD"} /\ within(majors[k])
    THEN "Issue handling"
    ELSE IF \E k \in DOMAIN evid : evid[k].type = "file_change" /\ within(evid[k])
    THEN "Implementation iteration"
    ELSE "Requirement shaping"

\* buildTimelineNarrative; of the summary sentence the counts it reports
BuildTimelineNarrative(events, majors, evid, instructions) ==
    LET segments == SplitSegments(events) IN
    [k \in DOMAIN segments |->
        LET segment == segments[k]
            inSegment == SelectSeq(evid, LAMBDA item : item.ts >= segment.start
                                                       /\ item.ts <= segment.end)
            capped == Slice0(inSegment, 12)
        IN  [id |-> StableId(<<"narrative", ToString(k - 1), ToString(segment.start),
                               ToString(segment.end)>>),
             start |-> segment.start,
             end |-> segment.end,
             title |-> PhaseTitle(segment, majors, evid),
             events |-> Len(segment.events),
             evidenceIds |-> [h \in DOMAIN capped |-> capped[h].id]]]

(***************************************************************************)
(* SpecInsights: analyzeInsights on bounded timelines and evidence         *)
(***************************************************************************)
MaxInsightEvents == 3

\* The actor and detail of the timeline events handed to analyzeInsights
InsightEventInputs ==
    { [actor |-> "user", detail |-> <<"fix", " ", "login", " ", "page">>],
      [actor |-> "user", detail |-> <<"fix", " ", "login", " ", "again">>],
      [actor |-> "user", detail |-> <<"fix", " ", "login", " ", "page", " ", "layout">>],
      [actor |-> "user", detail |-> <<"OK">>],
      [actor |-> "user", detail |-> <<"#", " ", "AGENTS.md", " ", "instructions">>],
      [actor |-> "user", detail |-> <<"turn", " ", "aborted">>],
      [actor |-> "user", detail |-> <<"<", "environment", "_", "context", ">">>],
      [actor |-> "user",
       detail |-> <<JsonTextOpen, "Fix", " ", "login", " ", "page", "!", JsonTextClose>>],
      [actor |-> "assistant", detail |-> <<"fix", " ", "login", " ", "page">>] }

\* When the k-th of n events happens, in minutes: ten minutes apart, ten
\* minutes apart after a pause of more than two hours, or in reverse order
Schedules == {"steady", "paused", "reversed"}

EventTs(schedule, k, n) ==
    CASE schedule = "steady" -> (k - 1) * 10
      [] schedule = "paused" -> IF k = 1 THEN 0 ELSE 180 + (k - 1) * 10
      [] schedule = "reversed" -> (n - k) * 10

InsightTimelines(n, schedule) ==
    { [k \in 1..n |-> [id |-> ToString(k), ts |-> EventTs(schedule, k, n),
                       actor |-> f[k].actor, detail |-> f[k].detail]] :
      f \in [1..n -> InsightEventInputs] }

\* An EvidenceItem as analyzeInsights reads it; confidence in hundredths
InsightEvidence(id, type, ts, file) ==
    [id |-> id, type |-> type, ts |-> ts, projectId |-> "p1", confidence |-> 90,
     sourcePath |-> <<"/", "proj", "/", "src", "/">> \o file]

InsightScope == [mode |-> "single", projects |-> <<Project("p1", <<"/", "proj">>)>>]

\* The schedule, evidence and major events of one run
InsightRuns ==
    { [schedule |-> "steady", evid |-> <<>>, majors |-> <<>>],
      [schedule |-> "steady", majors |-> <<>>,
       evid |-> <<InsightEvidence("f1", "file_change", 40, <<"a.ts">>)>>],
      [schedule |-> "steady", majors |-> <<[type |-> "GOAL", ts |-> 10]>>,
       evid |-> <<InsightEvidence("f1", "file_change", 25, <<"a.ts">>)>>],
      [schedule |-> "steady", majors |-> <<>>,
       evid |-> <<InsightEvidence("f1", "file_change", 0, <<"parser", "/", "a.ts">>)>>],
      [schedule |-> "steady", majors |-> <<>>,
       evid |-> <<InsightEvidence("f1", "file_change", 25, <<"a.ts">>),
                  InsightEvidence("f2", "file_change", 0, <<"b.ts">>)>>],
      [schedule |-> "steady", majors |-> <<>>,
       evid |-> <<InsightEvidence("c1", "tool_call", 0, <<"a.ts">>),
                  InsightEvidence("f1", "file_change", 100, <<"a.ts">>)>>],
      [schedule |-> "reversed", majors |-> <<>>,
       evid |-> <<InsightEvidence("f1", "file_change", 0, <<"a.ts">>)>>],
      [schedule |-> "paused", majors |-> <<[type |-> "RED_CARD", ts |-> 190]>>,
       evid |-> <<InsightEvidence("f1", "file_change", 195, <<"a.ts">>)>>] }

InitInsights ==
    /\ \E run \in InsightRuns, n \in 0..MaxInsightEvents :
          /\ timeline \in InsightTimelines(n, run.schedule)
          /\ evidence = run.evid
          /\ majorEvents = run.majors
    /\ scope = InsightScope
    /\ insights = NoInsights
    /\ pc = "idle" /\ rootIdx = 0 /\ queue = <<>> /\ current = <<>> /\ entries = <<>>
    /\ changed = <<>> /\ trace = <<>> /\ collected = NotCollected
    /\ options = NoOptions /\ clsIdx = 0 /\ results = <<>> /\ pending = <<>>
    /\ IdlePaths /\ IdleConflict /\ IdleDerived /\ IdleRules /\ ProgramCap

\* analyzeInsights
AnalyzeInsights ==
    /\ ~insights.returned
    /\ LET instructions == BuildUserInstructions(timeline)
       IN  insights' = [returned |-> TRUE,
                        instructions |-> instructions,
                        repetition |-> BuildRepetitionClusters(instructions, evidence),
                        featureDeltas |-> BuildFeatureDeltas(scope, evidence),
                        timelineNarrative |->
                            BuildTimelineNarrative(timeline, majorEvents, evidence,
                                                   instructions)]
    /\ UNCHANGED <<pathVars, conflictVars, collectVars, classifyVars, derivedVars, ruleVars, walkVars>>

NextInsights == AnalyzeInsights

SpecInsights == InitInsights /\ [][NextInsights]_vars

\* The instructions a cluster names
MembersOf(cluster) ==
    SelectSeq(insights.instructions, LAMBDA x : x.id \in Range(cluster.instructionIds))

\* The file_change evidence items within twenty minutes of ts, both ends
\* included
NearbyFileChanges(ts) ==
    {k \in DOMAIN evidence : /\ evidence[k].type = "file_change"
                             /\ ts - 20 <= evidence[k].ts
                             /\ evidence[k].ts <= ts + 20}

\* The progress signal p of a group of instructions
RECURSIVE ProgressSignal(_)
ProgressSignal(group) ==
    IF group = <<>> THEN 0
    ELSE Cardinality(NearbyFileChanges(Head(group).ts)) + ProgressSignal(Tail(group))

\* Whether the texts of a group hold a stuck marker
StuckMarkers(group) == HasStuckLanguage([k \in DOMAIN group |-> group[k].text])

\* The decision function as the specification states it
StatedInterpretation(kind, count, stuck, p) ==
    IF kind = "exact_repeat" /\ count >= 3 /\ (stuck \/ p <= 1) THEN "stuck_issue"
    ELSE IF count >= 3 /\ p >= count - 1 THEN "feature_polish"
    ELSE "normal_iteration"

\* The instructions whose text is identical to that of x, and the ones x is
\* grouped with: those of the same normalized text
IdenticalTo(x) == SelectSeq(insights.instructions, LAMBDA y : y.text = x.text)
GroupedWith(x) == SelectSeq(insights.instructions, LAMBDA y : y.normalized = x.normalized)

C19_EmptyInputGivesFourEmptyArrays ==
    /\ (timeline = <<>> /\ evidence = <<>> /\ majorEvents = <<>> /\ scope = InsightScope
        /\ ~insights.returned) => ENABLED AnalyzeInsights
    /\ (timeline = <<>> /\ evidence = <<>> /\ majorEvents = <<>> /\ insights.returned) =>
          /\ insights.instructions = <<>>
          /\ insights.repetition = <<>>
          /\ insights.featureDeltas = <<>>
          /\ insights.timelineNarrative = <<>>

\* analyzeInsights has returned from a call with an empty timeline, empty
\* evidence and no major events
C19_Witness ==
    /\ insights.returned
    /\ timeline = <<>> /\ evidence = <<>> /\ majorEvents = <<>>

\* The timeline event an instruction was derived from
SourceEventOf(x) == timeline[CHOOSE k \in DOMAIN timeline : timeline[k].id = x.sourceEventId]

DerivedFromUserEvent(x) ==
    \E k \in DOMAIN timeline :
        /\ timeline[k].actor = "user"
        /\ timeline[k].id = x.sourceEventId
        /\ x = InstructionOf(timeline[k])

\* C20: the instructions array analyzeInsights returns holds only
\* instructions derived from user-actor timeline events, in ascending order
\* of ts, none of them known boilerplate (an environment preamble, an abort
\* marker) and none a trivial one-word acknowledgement such as "ok".
C20_InstructionsAreUserSortedAndMeaningful ==
    insights.returned =>
      /\ \A i \in DOMAIN insights.instructions :
            DerivedFromUserEvent(insights.instructions[i])
      /\ \A i, j \in DOMAIN insights.instructions :
            i < j => insights.instructions[i].ts <= insights.instructions[j].ts
      /\ \A i \in DOMAIN insights.instructions :
            /\ ~IsBoilerplateInstruction(insights.instructions[i].text)
            /\ ~IsBoilerplateInstruction(SourceEventOf(insights.instructions[i]).detail)
      /\ \A i \in DOMAIN insights.instructions :
            ~IsTrivialInstruction(insights.instructions[i])

(***************************************************************************)
(* ActionChainBuilder: classify.ts, buildActionChains                      *)
(***************************************************************************)
\* indexById.get(id): the last timeline event of that id, if any
IndexById(events, id) ==
    LET at == {k \in DOMAIN events : events[k].id = id} IN
    IF at = {} THEN Absent
    ELSE Some(events[CHOOSE k \in at : \A h \in at : h <= k])

\* evidenceByEvent.get(id) ?? []: the items of that eventId, in evidence
\* order; an item without eventId is in no list
EvidenceByEvent(evid, id) ==
    SelectSeq(evid, LAMBDA item : item.eventId # Undefined /\ item.eventId = id)

\* summarizeChain
SummarizeChain(major, steps) ==
    IF steps = <<>> THEN major.summary
    ELSE IF steps[1].id = steps[Len(steps)].id
    THEN <<major.type, ":", " ">> \o steps[1].label
    ELSE <<major.type, ":", " ">> \o steps[1].label \o <<" ", "->", " ">>
             \o steps[Len(steps)].label

\* steps.flatMap((step) => evidenceByEvent.get(step.id) ?? [])
RECURSIVE FlattenedEvidence(_, _)
FlattenedEvidence(steps, evid) ==
    IF steps = <<>> THEN <<>>
    ELSE EvidenceByEvent(evid, Head(steps).id) \o FlattenedEvidence(Tail(steps), evid)

\* The fallback confidence 0.72, in thousandths
FallbackConfidence == 720

\* Number(confidence.toFixed(3)) of the mean, in thousandths; the items'
\* confidences are in hundredths, and a half rounds up
RoundedMean(sum, count) == (20 * sum + count) \div (2 * count)

\* The mean that divides by the number of steps in place of the number of
\* evidence items
ChainConfidencePerStep(steps, flattened) ==
    IF Len(flattened) > 0
    THEN RoundedMean(ConfidenceSum(flattened), Len(steps))
    ELSE FallbackConfidence

\* confidence of one chain
ChainConfidence(steps, flattened) ==
    IF Len(flattened) > 0
    THEN RoundedMean(ConfidenceSum(flattened), Len(flattened))
    ELSE FallbackConfidence

\* The steps of a chain that keep a missing follow-up as a step of its own
ChainStepsKeepMissing(events, major) ==
    LET ids == <<major.triggerEventId>> \o major.followUpEventIds IN
    [k \in DOMAIN ids |->
        IF IndexById(events, ids[k]).defined THEN IndexById(events, ids[k]).value
        ELSE [id |-> ids[k], ts |-> 0, label |-> <<>>, detail |-> <<>>, actor |-> "system"]]

\* [focus, ...followups].filter(Boolean)
ChainSteps(events, major) ==
    LET ids == <<major.triggerEventId>> \o major.followUpEventIds
        found == SelectSeq([k \in DOMAIN ids |-> IndexById(events, ids[k])],
                           LAMBDA e : e.defined)
    IN  [k \in DOMAIN found |-> found[k].value]

\* The ActionChain of one major event
ActionChain(events, major, evid) ==
    CHOOSE chain \in
        { [id |-> StableId(<<"action_chain", major.id>>),
           majorEventId |-> major.id,
           projectId |-> IF flattened = <<>> THEN Undefined ELSE flattened[1].projectId,
           summary |-> SummarizeChain(major, steps),
           confidence |-> ChainConfidence(steps, flattened),
           steps |-> [k \in DOMAIN steps |->
                         [eventId |-> steps[k].id,
                          ts |-> steps[k].ts,
                          label |-> steps[k].label,
                          detail |-> steps[k].detail,
                          actor |-> steps[k].actor,
                          evidenceIds |->
                              LET own == EvidenceByEvent(evid, steps[k].id)
                              IN  [h \in DOMAIN own |-> own[h].id]]]]
          : <<steps, flattened>> \in
               { <<st, FlattenedEvidence(st, evid)>> : st \in {ChainSteps(events, major)} } }
        : TRUE

\* buildActionChains
BuildActionChains(events, majors, evid) ==
    [m \in DOMAIN majors |-> ActionChain(events, majors[m], evid)]

(***************************************************************************)
(* SpecChains: buildActionChains on bounded timelines, major events and    *)
(* evidence                                                                *)
(***************************************************************************)
MaxChainEvents == 3
MaxMajors == 2
MaxChainEvidence == 3

\* The timeline of n events: the event at position i has id ToString(i)
ChainTimeline(n) ==
    [i \in 1..n |-> [id |-> ToString(i), ts |-> i, label |-> <<"event", " ", ToString(i)>>,
                     detail |-> <<"detail", " ", ToString(i)>>, actor |-> "system"]]

\* A MajorEvent as buildActionChains and buildReplaySegments read it
ChainMajor(trigger, followUps) ==
    [id |-> StableId(<<trigger, "rule", "0">>), type |-> "GOAL", summary |-> <<"goal">>,
     ts |-> 0, triggerEventId |-> trigger, followUpEventIds |-> followUps]

\* Major events: their triggers and follow-ups may name events the timeline
\* lacks ("9" is in no timeline), and a follow-up may repeat
MajorInputs ==
    { ChainMajor("1", <<"2", "9", "3">>),
      ChainMajor("9", <<"2">>),
      ChainMajor("2", <<>>),
      ChainMajor("3", <<"1", "1">>) }

\* Evidence items: user_text (0.72), file_change (0.95) and tool_call (0.9)
\* items of events "1" and "2", and a file change of no event
ChainEvidenceInputs ==
    { [eventId |-> "1", type |-> "user_text", confidence |-> 72, projectId |-> "p1"],
      [eventId |-> "1", type |-> "file_change", confidence |-> 95, projectId |-> "p2"],
      [eventId |-> "2", type |-> "tool_call", confidence |-> 90, projectId |-> Undefined],
      [eventId |-> Undefined, type |-> "file_change", confidence |-> 95, projectId |-> "p1"] }

\* The evidence lists of n items: the item at position k has id ToString(100 + k)
ChainEvidence(n) ==
    { [k \in 1..n |-> f[k] @@ [id |-> ToString(100 + k)]] :
      f \in [1..n -> ChainEvidenceInputs] }

InitChains ==
    /\ timeline \in {ChainTimeline(n) : n \in 0..MaxChainEvents}
    /\ majorEvents \in SeqsUpTo(MajorInputs, MaxMajors)
    /\ evidence \in UNION {ChainEvidence(n) : n \in 0..MaxChainEvidence}
    /\ actionChains = NotBuilt /\ replay = NotBuilt /\ segmentWindows = NotBuilt
    /\ progress = NotBuilt
    /\ scope = NoScope /\ pc = "idle"
    /\ rootIdx = 0 /\ queue = <<>> /\ current = <<>> /\ entries = <<>>
    /\ changed = <<>> /\ trace = <<>> /\ collected = NotCollected
    /\ options = NoOptions /\ clsIdx = 0 /\ results = <<>> /\ pending = <<>>
    /\ IdlePaths /\ IdleConflict /\ IdleInsights /\ IdleRules /\ ProgramCap

\* const actionChains = buildActionChains(timeline, majorEvents, evidence)
BuildActionChainsCall ==
    /\ ~actionChains.done
    /\ actionChains' = [done |-> TRUE,
                        chains |-> BuildActionChains(timeline, majorEvents, evidence)]
    /\ UNCHANGED <<replay, segmentWindows, progress, pathVars, conflictVars, collectVars, classifyVars,
                   insightVars, ruleVars, walkVars>>

NextChains == BuildActionChainsCall

SpecChains == InitChains /\ [][NextChains]_vars

\* The ids a major event names, trigger first, that some timeline event has
PresentIds(major) ==
    SelectSeq(<<major.triggerEventId>> \o major.followUpEventIds,
              LAMBDA id : \E k \in DOMAIN timeline : timeline[k].id = id)

\* The ids of the evidence items whose eventId is id, in evidence order
EvidenceIdsOf(id) ==
    LET own == SelectSeq(evidence, LAMBDA item : item.eventId = id)
    IN  [h \in DOMAIN own |-> own[h].id]

\* C21: buildActionChains returns one chain per major event, in the same
\* order; the steps of a chain are the trigger event followed by the
\* follow-up events in followUpEventIds order, an id that no timeline event
\* has being dropped; and the evidenceIds of a step are exactly the ids of
\* the evidence items whose eventId is that step's event id.
C21_ChainPerMajorWithStepsAndEvidence ==
    actionChains.done =>
      /\ Len(actionChains.chains) = Len(majorEvents)
      /\ \A m \in DOMAIN majorEvents :
            LET chain == actionChains.chains[m]
                ids == PresentIds(majorEvents[m])
            IN  /\ chain.majorEventId = majorEvents[m].id
                /\ [k \in DOMAIN chain.steps |-> chain.steps[k].eventId] = ids
                /\ \A k \in DOMAIN chain.steps :
                      /\ \E e \in DOMAIN timeline :
                            /\ timeline[e].id = chain.steps[k].eventId
                            /\ timeline[e].ts = chain.steps[k].ts
                            /\ timeline[e].label = chain.steps[k].label
                      /\ chain.steps[k].evidenceIds = EvidenceIdsOf(chain.steps[k].eventId)

\* buildActionChains has returned two chains; one of them lost a follow-up
\* the timeline lacks and has a step with two evidence items
C21_Witness ==
    /\ actionChains.done
    /\ Len(actionChains.chains) = 2
    /\ \E m \in DOMAIN majorEvents :
          /\ Len(actionChains.chains[m].steps) >= 2
          /\ Len(actionChains.chains[m].steps) < 1 + Len(majorEvents[m].followUpEventIds)
          /\ \E k \in DOMAIN actionChains.chains[m].steps :
                Len(actionChains.chains[m].steps[k].evidenceIds) = 2

\* The confidences (in hundredths) of the evidence attached to the steps of
\* a chain, step after step
RECURSIVE AttachedConfidences(_)
AttachedConfidences(steps) ==
    IF steps = <<>> THEN <<>>
    ELSE [h \in DOMAIN Head(steps).evidenceIds |->
             LET id == Head(steps).evidenceIds[h]
             IN  evidence[CHOOSE k \in DOMAIN evidence : evidence[k].id = id].confidence]
         \o AttachedConfidences(Tail(steps))

RECURSIVE SumOf(_)
SumOf(numbers) == IF numbers = <<>> THEN 0 ELSE Head(numbers) + SumOf(Tail(numbers))

\* c (in thousandths) is the mean of the confidences (in hundredths) rounded
\* to three decimals: it is within half a thousandth of the mean
IsRoundedMean(c, confidences) ==
    LET n == Len(confidences)
        diff == 2 * (c * n - 10 * SumOf(confidences))
    IN  n > 0 /\ -n <= diff /\ diff <= n

\* C22 as stated: the confidence of a chain is the mean of the confidences
\* of the evidence attached to its steps, rounded to three decimals, and it
\* is the fallback 0.72 if and only if no evidence is attached to any step.
C22_MeanAndFallbackIffNoEvidence ==
    actionChains.done =>
      \A m \in DOMAIN actionChains.chains :
          LET chain == actionChains.chains[m]
              attached == AttachedConfidences(chain.steps)
          IN  /\ attached # <<>> => IsRoundedMean(chain.confidence, attached)
              /\ chain.confidence = FallbackConfidence <=> attached = <<>>

\* C22, amended: the confidence of a chain is the mean of the confidences of
\* the evidence attached to its steps, rounded to three decimals, when some
\* evidence is attached, and the fallback 0.72 when none is; a chain with
\* evidence attached may have the confidence 0.72 as well.
C22_MeanOrFallback ==
    actionChains.done =>
      \A m \in DOMAIN actionChains.chains :
          LET chain == actionChains.chains[m]
              attached == AttachedConfidences(chain.steps)
          IN  /\ attached # <<>> => IsRoundedMean(chain.confidence, attached)
              /\ attached = <<>> => chain.confidence = FallbackConfidence

\* buildActionChains has returned a chain with three evidence items whose
\* mean is no whole number of thousandths, and a chain without evidence
C22_Witness ==
    /\ actionChains.done
    /\ \E m \in DOMAIN actionChains.chains :
          LET attached == AttachedConfidences(actionChains.chains[m].steps)
          IN  Len(attached) = 3 /\ (10 * SumOf(attached)) % 3 # 0
    /\ \E m \in DOMAIN actionChains.chains :
          AttachedConfidences(actionChains.chains[m].steps) = <<>>

(***************************************************************************)
(* SpecSegments: splitSegments on ts-sorted timelines.  The limits are the *)
(* program's (2 hours, 1200 events, 8 segments) or small ones of the same  *)
(* roles, with which the size cap and the segment cap are met.             *)
(***************************************************************************)
MaxSegEvents == 5

\* The gap to the previous event, in minutes: none, exactly two hours, and
\* a minute more
GapInputs == {0, 120, 121}

\* The timeline whose k-th event comes gaps[k - 1] minutes after the one
\* before it
RECURSIVE TsAfter(_, _)
TsAfter(gaps, k) == IF k <= 1 THEN 0 ELSE TsAfter(gaps, k - 1) + gaps[k - 1]

SegTimelines(n) ==
    { [k \in 1..n |-> [id |-> ToString(k), ts |-> TsAfter(gaps, k), actor |-> "user",
                       detail |-> <<"note">>]] :
      gaps \in [1..(IF n = 0 THEN 0 ELSE n - 1) -> GapInputs] }

LimitInputs ==
    { SegmentLimits,
      [maxGap |-> MaxGap, maxEventsPerSegment |-> 2, maxSegments |-> 2],
      [maxGap |-> MaxGap, maxEventsPerSegment |-> 3, maxSegments |-> MaxSegments] }

InitSegments ==
    /\ timeline \in UNION {SegTimelines(n) : n \in 0..MaxSegEvents}
    /\ \E limits \in LimitInputs : segmentWindows = [done |-> FALSE, limits |-> limits]
    /\ actionChains = NotBuilt /\ replay = NotBuilt /\ progress = NotBuilt
    /\ scope = NoScope /\ evidence = <<>> /\ pc = "idle"
    /\ rootIdx = 0 /\ queue = <<>> /\ current = <<>> /\ entries = <<>>
    /\ changed = <<>> /\ trace = <<>> /\ collected = NotCollected
    /\ IdlePaths /\ IdleConflict /\ IdleInsights /\ IdleRules /\ ProgramCap /\ IdleClassify

\* const segments = splitSegments(timeline), in buildTimelineNarrative
SplitSegmentsCall ==
    /\ ~segmentWindows.done
    /\ segmentWindows' = [done |-> TRUE, limits |-> segmentWindows.limits,
                          windows |-> SplitSegmentsWithin(timeline, segmentWindows.limits)]
    /\ UNCHANGED <<actionChains, replay, progress, pathVars, conflictVars, collectVars,
                   classifyVars,
                   insightVars, ruleVars, walkVars>>

NextSegments == SplitSegmentsCall

SpecSegments == InitSegments /\ [][NextSegments]_vars

\* The events of the windows, window after window
RECURSIVE EventsOf(_)
EventsOf(windows) ==
    IF windows = <<>> THEN <<>> ELSE Head(windows).events \o EventsOf(Tail(windows))

\* A new segment starts at an event that comes after previous, the last
\* event of a segment of size events
StartsNewSegment(previous, event, size, limits) ==
    \/ event.ts - previous.ts > limits.maxGap
    \/ size >= limits.maxEventsPerSegment

\* C23: the narrative segmenter partitions a ts-sorted timeline into
\* contiguous runs of events.  The segments, one after the other, are the
\* timeline from its first event on, so every event of theirs belongs to
\* exactly one segment and timeline order is kept; no segment is empty;
\* start and end are the ts of the first and of the last event; within a
\* segment consecutive events are at most maxGap apart and there are at most
\* maxEventsPerSegment events; a segment ends before an event exactly when
\* that event comes more than maxGap after the previous one or the segment
\* already holds maxEventsPerSegment events; and at most maxSegments
\* segments are returned, the first ones: events are left out only when
\* maxSegments segments were returned.
C23_SegmentsPartitionTimeline ==
    segmentWindows.done =>
      LET windows == segmentWindows.windows
          limits == segmentWindows.limits
          covered == EventsOf(windows)
      IN  /\ Len(covered) <= Len(timeline)
          /\ covered = SubSeq(timeline, 1, Len(covered))
          /\ Len(windows) <= limits.maxSegments
          /\ Len(covered) < Len(timeline) => Len(windows) = limits.maxSegments
          /\ \A w \in DOMAIN windows :
                LET evs == windows[w].events
                    next == Len(EventsOf(SubSeq(windows, 1, w))) + 1
                IN  /\ evs # <<>>
                    /\ windows[w].start = evs[1].ts
                    /\ windows[w].end = evs[Len(evs)].ts
                    /\ Len(evs) <= limits.maxEventsPerSegment
                    /\ \A k \in 2..Len(evs) :
                          ~StartsNewSegment(evs[k - 1], evs[k], k - 1, limits)
                    /\ next <= Len(timeline) =>
                          StartsNewSegment(evs[Len(evs)], timeline[next], Len(evs), limits)

\* splitSegments has run with the program's limits and returned two segments,
\* the first of which ends with two events exactly two hours apart
C23_Witness ==
    /\ segmentWindows.done
    /\ segmentWindows.limits = SegmentLimits
    /\ Len(segmentWindows.windows) = 2
    /\ LET evs == segmentWindows.windows[1].events
       IN  Len(evs) >= 2 /\ evs[Len(evs)].ts - evs[Len(evs) - 1].ts = MaxGap

\* ---------------------------------------------------------------------------
\* ReplayBuilder: buildReplaySegments
\* ---------------------------------------------------------------------------

\* timeline.slice(from, to) with 0 <= from: the elements at 0-based positions
\* from .. to - 1, empty when to <= from
SliceBetween(s, from, to) == SubSeq(s, from + 1, Min(to, Len(s)))

\* indexById.get(id) ?? 0: the 0-based position of the last event carrying the
\* id, 0 when no event carries it
FocusIdx(events, id) ==
    LET hits == {k \in DOMAIN events : events[k].id = id}
    IN  IF hits = {} THEN 0 ELSE (CHOOSE k \in hits : \A h \in hits : h <= k) - 1

ReplayBeforeThroughFocus(events, focusIdx, beforeCount) ==
    SliceBetween(events, Max(0, focusIdx - beforeCount), focusIdx + 1)

ReplayBefore(events, focusIdx, beforeCount) ==
    SliceBetween(events, Max(0, focusIdx - beforeCount), focusIdx)

ReplayAfter(events, focusIdx, afterCount) ==
    SliceBetween(events, focusIdx + 1, Min(Len(events), focusIdx + 1 + afterCount))

ReplaySegment(events, major, beforeCount, afterCount) ==
    LET focusIdx == FocusIdx(events, major.triggerEventId)
    IN  [eventId |-> major.id,
         before  |-> ReplayBefore(events, focusIdx, beforeCount),
         focus   |-> major,
         after   |-> ReplayAfter(events, focusIdx, afterCount)]

BuildReplaySegments(events, majors, beforeCount, afterCount) ==
    [k \in DOMAIN majors |-> ReplaySegment(events, majors[k], beforeCount, afterCount)]

\* ---------------------------------------------------------------------------
\* SpecReplay: one call of buildReplaySegments
\* ---------------------------------------------------------------------------

MaxReplayEvents == 6

\* major events triggered by each timeline position, and one whose trigger
\* ("9") is in no timeline
ReplayMajorInputs ==
    {ChainMajor(ToString(i), <<>>) : i \in 1..MaxReplayEvents} \cup {ChainMajor("9", <<"2">>)}

\* <<beforeCount, afterCount>>: the defaults, the test's, the pipeline's, and
\* counts small enough to cut both slices inside a short timeline
ReplayCounts == {<<5, 12>>, <<3, 4>>, <<6, 16>>, <<1, 2>>, <<0, 0>>}

InitReplay ==
    /\ timeline \in {ChainTimeline(n) : n \in 0..MaxReplayEvents}
    /\ majorEvents \in SeqsUpTo(ReplayMajorInputs, MaxMajors)
    /\ evidence = <<>>
    /\ \E counts \in ReplayCounts :
          replay = [done |-> FALSE, beforeCount |-> counts[1], afterCount |-> counts[2]]
    /\ actionChains = NotBuilt /\ segmentWindows = NotBuilt /\ progress = NotBuilt
    /\ scope = NoScope /\ pc = "idle"
    /\ rootIdx = 0 /\ queue = <<>> /\ current = <<>> /\ entries = <<>>
    /\ changed = <<>> /\ trace = <<>> /\ collected = NotCollected
    /\ options = NoOptions /\ clsIdx = 0 /\ results = <<>> /\ pending = <<>>
    /\ IdlePaths /\ IdleConflict /\ IdleInsights /\ IdleRules /\ ProgramCap

\* const replaySegments = buildReplaySegments(timeline, majorEvents, 6, 16)
BuildReplaySegmentsCall ==
    /\ ~replay.done
    /\ replay' = [done |-> TRUE,
                  beforeCount |-> replay.beforeCount,
                  afterCount |-> replay.afterCount,
                  segments |-> BuildReplaySegments(timeline, majorEvents,
                                                   replay.beforeCount, replay.afterCount)]
    /\ UNCHANGED <<actionChains, segmentWindows, progress, pathVars, conflictVars, collectVars,
                   classifyVars, insightVars, ruleVars, walkVars>>

NextReplay == BuildReplaySegmentsCall

SpecReplay == InitReplay /\ [][NextReplay]_vars

\* 1-based positions of the timeline events carrying the id
PositionsOf(id) == {p \in DOMAIN timeline : timeline[p].id = id}

\* s is the contiguous run timeline[first], ..., timeline[first + count - 1]
IsRunOfTimeline(s, first, count) ==
    /\ Len(s) = count
    /\ \A j \in 1..count : s[j] = timeline[first + j - 1]

\* C24: buildReplaySegments returns one segment per major event, in order and
\* carrying the major event's id and the major event as focus; for every major
\* event whose trigger is in the timeline at 0-based index i (of n events),
\* before is the run of min(beforeCount, i) timeline events that ends just
\* before the trigger, after is the run of min(afterCount, n - 1 - i) events
\* that starts just after it, and neither contains the trigger.
C24_ReplayWindowsAroundTrigger ==
    replay.done =>
        /\ Len(replay.segments) = Len(majorEvents)
        /\ \A k \in DOMAIN majorEvents :
              LET segment == replay.segments[k]
                  trigger == majorEvents[k].triggerEventId
                  n == Len(timeline)
              IN  /\ segment.eventId = majorEvents[k].id
                  /\ segment.focus = majorEvents[k]
                  /\ \A p \in PositionsOf(trigger) :
                        LET i == p - 1
                            nBefore == Min(replay.beforeCount, i)
                            nAfter == Min(replay.afterCount, n - 1 - i)
                        IN  /\ IsRunOfTimeline(segment.before, p - nBefore, nBefore)
                            /\ IsRunOfTimeline(segment.after, p + 1, nAfter)
                            /\ \A e \in Range(segment.before) \cup Range(segment.after) :
                                  e.id # trigger

\* a trigger in the middle of the timeline with both slices cut by the counts
\* and both non-empty
C24_Witness ==
    /\ replay.done
    /\ \E k \in DOMAIN majorEvents :
          \E p \in PositionsOf(majorEvents[k].triggerEventId) :
             /\ 0 < replay.beforeCount /\ replay.beforeCount < p - 1
             /\ 0 < replay.afterCount /\ replay.afterCount < Len(timeline) - p
             /\ Len(replay.segments[k].before) = replay.beforeCount
             /\ Len(replay.segments[k].after) = replay.afterCount

\* ---------------------------------------------------------------------------
\* SpecRuleSet: bootstrapRulesFromTimeline called again and again, and what
\* the calls do to the exported array DEFAULT_RULES
\* ---------------------------------------------------------------------------

MaxBootCalls == 3
MaxRuleSetEvents == 2

\* a call that would write its boosted rules back into the exported array
DefaultRulesBoostedInPlace(defaults, returned) == returned

\* DEFAULT_RULES after a call: DEFAULT_RULES.map builds a new array,
\* { ...rule, anyOf: [...new Set(...)] } a new rule with a new token list, and
\* the unboosted paths return the array or the rule itself without writing it
DefaultRulesAfterBootstrap(defaults, returned) == defaults

InitRuleSet ==
    /\ defaultRules = DEFAULT_RULES
    /\ bootstrapped = [done |-> FALSE, calls |-> 0]
    /\ ProgramCap
    /\ IdlePaths /\ IdleConflict /\ IdleCollect /\ IdleClassify /\ IdleInsights /\ IdleDerived

\* bootstrapRulesFromTimeline(timeline), bootstrap.ts, on any timeline
BootstrapAgainCall ==
    /\ bootstrapped.calls < MaxBootCalls
    /\ \E events \in UNION {BootTimelines(n) : n \in 0..MaxRuleSetEvents} :
          LET returned == BootstrapRulesFromTimeline(events)
          IN  /\ timeline' = events
              /\ bootstrapped' = [done |-> TRUE, calls |-> bootstrapped.calls + 1,
                                  returned |-> returned]
              /\ defaultRules' = DefaultRulesAfterBootstrap(defaultRules, returned)
    /\ UNCHANGED <<scope, evidence, pc, rootIdx, queue, current, entries, changed, trace,
                   collected, pathVars, conflictVars, classifyVars, insightVars, derivedVars,
                   walkVars>>

\* bootstrapRulesFromTimeline(timeline), the second text, on any timeline
BootstrapSeededAgainCall ==
    /\ bootstrapped.calls < MaxBootCalls
    /\ \E events \in UNION {BootTimelines(n) : n \in 0..MaxRuleSetEvents} :
          LET returned == BootstrapRulesSeeded(events)
          IN  /\ timeline' = events
              /\ bootstrapped' = [done |-> TRUE, calls |-> bootstrapped.calls + 1,
                                  returned |-> returned]
              /\ defaultRules' = DefaultRulesAfterBootstrap(defaultRules, returned)
    /\ UNCHANGED <<scope, evidence, pc, rootIdx, queue, current, entries, changed, trace,
                   collected, pathVars, conflictVars, classifyVars, insightVars, derivedVars,
                   walkVars>>

NextRuleSet == BootstrapAgainCall \/ BootstrapSeededAgainCall

SpecRuleSet == InitRuleSet /\ [][NextRuleSet]_vars

\* the returned rule is the default rule with, at most, tokens added
KeepsDefault(rule, default) ==
    /\ rule.id = default.id
    /\ rule.eventType = default.eventType
    /\ rule.weight = default.weight
    /\ rule.minScore = default.minScore
    /\ Range(default.anyOf) \subseteq Range(rule.anyOf)

\* C25: after any sequence of calls of bootstrapRulesFromTimeline with any
\* timelines, DEFAULT_RULES holds the same rules in the same order with the
\* same anyOf token lists as before the first call, and the rules returned
\* are the default rules in order, each with its default id, eventType,
\* weight and minScore and an anyOf list that contains every default token.
C25_DefaultRulesNeverMutated ==
    /\ defaultRules = DEFAULT_RULES
    /\ bootstrapped.done =>
          /\ Len(bootstrapped.returned) = Len(DEFAULT_RULES)
          /\ \A r \in DOMAIN DEFAULT_RULES :
                KeepsDefault(bootstrapped.returned[r], DEFAULT_RULES[r])

\* a later call, after a call that boosted, returns boosted rules again
C25_Witness ==
    /\ bootstrapped.done
    /\ bootstrapped.calls = MaxBootCalls
    /\ \E r \in DOMAIN DEFAULT_RULES :
          Len(bootstrapped.returned[r].anyOf) > Len(DEFAULT_RULES[r].anyOf)
    /\ \E r \in DOMAIN DEFAULT_RULES :
          bootstrapped.returned[r] = DEFAULT_RULES[r]

\* ---------------------------------------------------------------------------
\* SpecEvidence: the two entry points of evidence.ts. collectEvidence runs and
\* resolveConflicts is handed what it returned, or resolveConflicts is called
\* on a list of its own, in any order
\* ---------------------------------------------------------------------------

InitEvidence == InitCollect \/ InitConflicts

\* resolveConflicts(items) on a list that no collectEvidence call produced
ResolveGivenItems ==
    /\ pc = "idle"
    /\ ResolveConflictsCall

\* const { evidence, conflicts } = resolveConflicts(evidenceCollected)
ResolveCollected ==
    /\ pc = "done"
    /\ collected.status = "returned"
    /\ ~resolved.done
    /\ items' = collected.evidence
    /\ resolved' = ResolveConflicts(collected.evidence)
    /\ UNCHANGED <<pathVars, collectVars, classifyVars, insightVars, derivedVars, ruleVars, walkVars>>

NextEvidence == NextCollect \/ ResolveGivenItems \/ ResolveCollected

SpecEvidence == InitEvidence /\ [][NextEvidence]_vars

SortedAscendingByTs(list) ==
    \A i, j \in DOMAIN list : i < j => list[i].ts <= list[j].ts

\* C26: the list collectEvidence returns and the evidence list
\* resolveConflicts returns are sorted ascending by ts, whatever the order of
\* the items before the sort, and every evidence item derived from a timeline
\* event has range.start <= ts <= range.end.
C26_ReturnedEvidenceSortedAndInRange ==
    /\ collected.status = "returned" =>
          /\ SortedAscendingByTs(collected.evidence)
          /\ \A k \in DOMAIN collected.evidence :
                collected.evidence[k].eventId # Undefined =>
                   /\ RangeStart <= collected.evidence[k].ts
                   /\ collected.evidence[k].ts <= RangeEnd
    /\ resolved.done => SortedAscendingByTs(resolved.evidence)

\* collectEvidence had a file change older than a timeline event to move, and
\* resolveConflicts returned several of the items
C26_Witness ==
    /\ collected.status = "returned"
    /\ collected.evidence # evidence
    /\ \E k \in DOMAIN collected.evidence : collected.evidence[k].eventId # Undefined
    /\ resolved.done
    /\ Len(resolved.evidence) >= 2

\* ---------------------------------------------------------------------------
\* Topic-repeat clusters, checked under SpecInsights
\* ---------------------------------------------------------------------------

\* the instructions buildRepetitionClusters groups, and the topic key of one
NonTrivialInstructions ==
    SelectSeq(insights.instructions, LAMBDA x : ~IsTrivialInstruction(x))

TopicKeyOf(x) == TopTopicTokens(x.tokens)

TopicGroupOf(key) == SelectSeq(NonTrivialInstructions, LAMBDA x : TopicKeyOf(x) = key)

IdsOf(group) == [k \in DOMAIN group |-> group[k].id]

ClustersOf(kind, group) ==
    {c \in DOMAIN insights.repetition :
        /\ insights.repetition[c].kind = kind
        /\ insights.repetition[c].instructionIds = IdsOf(group)}

MaxProgressEvidence == 3
MaxProgressInstructions == 2

\* evidence around an instruction at minute 20 or 41: file changes at both
\* ends of a window, just outside one, and a tool call inside
ProgressEvidenceInputs ==
    { [type |-> "file_change", ts |-> 0], [type |-> "file_change", ts |-> 21],
      [type |-> "file_change", ts |-> 40], [type |-> "file_change", ts |-> 41],
      [type |-> "tool_call", ts |-> 40] }

InstructionTsInputs == {20, 41}

SearchTargets == {0, 40, 41}

\* tsList of computeFileChangeAroundInstructions: the timestamps of the file
\* changes, sorted
FileChangeTsList(evid) ==
    LET changes == SelectSeq(evid, LAMBDA item : item.type = "file_change")
        fileChanges == StableSort(changes, [i \in DOMAIN changes, j \in DOMAIN changes |->
                                               changes[i].ts - changes[j].ts < 0])
    IN  [k \in DOMAIN fileChanges |-> fileChanges[k].ts]

InitProgress ==
    /\ evidence \in SeqsUpTo(ProgressEvidenceInputs, MaxProgressEvidence)
    /\ \E instructionTs \in SeqsUpTo(InstructionTsInputs, MaxProgressInstructions),
          target \in SearchTargets :
          progress = [done |-> FALSE, at |-> "total", instructionTs |-> instructionTs,
                      target |-> target]
    /\ actionChains = NotBuilt /\ replay = NotBuilt /\ segmentWindows = NotBuilt
    /\ scope = NoScope /\ timeline = <<>> /\ pc = "idle"
    /\ rootIdx = 0 /\ queue = <<>> /\ current = <<>> /\ entries = <<>>
    /\ changed = <<>> /\ trace = <<>> /\ collected = NotCollected
    /\ IdlePaths /\ IdleConflict /\ IdleClassify /\ IdleInsights /\ IdleRules /\ ProgramCap

\* computeFileChangeAroundInstructions(ts, evidence, 20 * 60 * 1000)
ComputeFileChangeCall ==
    /\ progress.at = "total"
    /\ progress' = [progress EXCEPT !.at = "left"] @@
                   [total |-> ComputeFileChangeAroundInstructions(
                                  progress.instructionTs, evidence, RepetitionWindow)]
    /\ UNCHANGED <<actionChains, replay, segmentWindows, pathVars, conflictVars, collectVars,
                   classifyVars, insightVars, ruleVars, walkVars>>

\* binarySearchLeft(tsList, target)
BinarySearchLeftCall ==
    /\ progress.at = "left"
    /\ progress' = [progress EXCEPT !.at = "right"] @@
                   [left |-> BinarySearchLeft(FileChangeTsList(evidence), progress.target)]
    /\ UNCHANGED <<actionChains, replay, segmentWindows, pathVars, conflictVars, collectVars,
                   classifyVars, insightVars, ruleVars, walkVars>>

\* binarySearchRight(tsList, target)
BinarySearchRightCall ==
    /\ progress.at = "right"
    /\ progress' = [progress EXCEPT !.at = "done", !.done = TRUE] @@
                   [right |-> BinarySearchRight(FileChangeTsList(evidence), progress.target)]
    /\ UNCHANGED <<actionChains, replay, segmentWindows, pathVars, conflictVars, collectVars,
                   classifyVars, insightVars, ruleVars, walkVars>>

NextProgress == ComputeFileChangeCall \/ BinarySearchLeftCall \/ BinarySearchRightCall

SpecProgress == InitProgress /\ [][NextProgress]_vars

\* The reference count: for every instruction timestamp in turn, the number
\* of file_change evidence items within twenty minutes of it
RECURSIVE ReferenceCount(_)
ReferenceCount(instructionTs) ==
    IF instructionTs = <<>> THEN 0
    ELSE Cardinality(NearbyFileChanges(Head(instructionTs)))
         + ReferenceCount(Tail(instructionTs))

\* C28: the progress signal of computeFileChangeAroundInstructions is the sum,
\* over the instruction timestamps t, of the number of file_change evidence
\* items e with t - 20min <= e.ts <= t + 20min, in whatever order the
\* evidence comes; binarySearchLeft returns the number of sorted timestamps
\* strictly below the target and binarySearchRight the number at or below it.
C28_ProgressSignalIsReferenceCount ==
    LET tsList == FileChangeTsList(evidence) IN
    /\ progress.at \in {"left", "right", "done"} =>
          progress.total = ReferenceCount(progress.instructionTs)
    /\ progress.at \in {"right", "done"} =>
          progress.left = Cardinality({k \in DOMAIN tsList : tsList[k] < progress.target})
    /\ progress.at = "done" =>
          progress.right = Cardinality({k \in DOMAIN tsList : tsList[k] <= progress.target})

\* evidence out of order, a file change at the very end of the window of two
\* instructions (counted twice), and timestamps equal to the search target
C28_Witness ==
    /\ progress.done
    /\ ~SortedAscendingByTs(evidence)
    /\ progress.instructionTs = <<20, 20>>
    /\ \E k \in DOMAIN evidence : evidence[k].type = "file_change" /\ evidence[k].ts = 40
    /\ \E k \in DOMAIN evidence : evidence[k].type = "file_change" /\ evidence[k].ts = 41
    /\ progress.total >= 2
    /\ progress.target = 40
    /\ progress.right > progress.left

\* ---------------------------------------------------------------------------
\* SpecWalk: the filesystem walks of pushFileChangeEvidence, with the cap of
\* the program and with caps the three files of the tree can reach
\* ---------------------------------------------------------------------------

WalkCaps == {MaxFiles, 1, 2}

InitWalk ==
    /\ scope \in ScopeInputs
    /\ allowedRoots \in AllowedRootsInputs(scope)
    /\ timeline = <<>>
    /\ maxFiles \in WalkCaps
    /\ audit = <<>> /\ now = 0 /\ lastCall = NoCall /\ checks = 0
    /\ evidence = <<>>
    /\ pc = "timeline"
    /\ rootIdx = 0 /\ queue = <<>> /\ current = <<>> /\ entries = <<>>
    /\ changed = <<>> /\ trace = <<>>
    /\ collected = NotCollected
    /\ IdleConflict /\ IdleInsights /\ IdleDerived /\ IdleRules /\ IdleClassify

SpecWalk == InitWalk /\ [][NextCollect]_vars

\* every step that can be taken is taken in the end: the loops of the walk
\* are synchronous code
SpecWalkFair == SpecWalk /\ WF_vars(NextCollect)

\* the path names an entry the walk is to leave alone
NamesDenied(path) ==
    \E name \in DenyNames :
        /\ Len(path) > Len(name)
        /\ SubSeq(path, Len(path) - Len(name), Len(path)) = <<"/">> \o name

\* the walk is bounded: never more than maxFiles changed files of one root,
\* and no entry with a denied name is checked, listed or stat'ed
WalkBounded ==
    /\ Len(changed) <= maxFiles
    /\ \A t \in DOMAIN trace : ~NamesDenied(trace[t].path)

\* the last call of the step failed: a listing (op "readdir") or a stat
FailedIn(step, op) ==
    /\ Len(step) = Len(trace) + 2
    /\ step[Len(step)].op = op
    /\ ~step[Len(step)].ok

\* a directory that cannot be listed adds nothing and the walk goes on with
\* the rest of the queue; a file that cannot be stat'ed adds nothing and the
\* walk goes on with the rest of the entries
WalkSkipsFailures ==
    /\ (pc = "walk" /\ FailedIn(trace', "readdir")) =>
          /\ pc' = "walk"
          /\ queue' = SubSeq(queue, 1, Len(queue) - 1)
          /\ changed' = changed /\ evidence' = evidence /\ collected' = collected
    /\ (pc = "entries" /\ FailedIn(trace', "stat")) =>
          /\ entries' = Tail(entries)
          /\ pc' = (IF Tail(entries) = <<>> THEN "walk" ELSE "entries")
          /\ queue' = queue
          /\ changed' = changed /\ evidence' = evidence /\ collected' = collected

\* C29: the walk of a project root terminates and is bounded: it returns at
\* most maxFiles changed files per root (600 in the program), never checks,
\* lists or descends into an entry named .git, node_modules, dist, build,
\* .next or .cache, and skips a directory that cannot be listed or a file
\* that cannot be stat'ed, going on with the remaining entries.
C29_WalkTerminatesBounded ==
    /\ []WalkBounded
    /\ [][WalkSkipsFailures]_vars
    /\ <>(pc = "done")

\* the walks returned, one of them with as many files as its cap allows,
\* after a listing and a stat had failed
C29_Witness ==
    /\ collected.status = "returned"
    /\ maxFiles < MaxFiles
    /\ \E k \in DOMAIN trace : trace[k].op = "readdir" /\ ~trace[k].ok
    /\ \E k \in DOMAIN trace : trace[k].op = "stat" /\ ~trace[k].ok
    /\ \E w \in 1..Len(ScopeRoots(scope)) :
          Cardinality({k \in DOMAIN trace : /\ trace[k].walk = w /\ trace[k].op = "stat"
                                            /\ trace[k].ok}) = maxFiles
    /\ Len(evidence) >= maxFiles

\* ---------------------------------------------------------------------------
\* Timeline evidence of a single-project scope, checked under SpecCollect
\* ---------------------------------------------------------------------------

\* the event's working directory is given and is not the project root or a
\* directory below it
OutsideProject(event) ==
    /\ MetadataDir(event) # <<>>
    /\ ~IsPathWithin(MetadataDir(event), ScopeProject(scope).root)

\* C30: in collectEvidence with a single-project scope, every timeline event
\* with range.start <= ts <= range.end yields exactly one evidence item, whose
\* eventId is the event's id, whatever its working-directory metadata is, and
\* the item of an event outside the project carries projectId undefined.
C30_EveryInRangeEventKeptOnce ==
    (pc # "timeline" /\ scope.mode = "single") =>
        \A e \in DOMAIN timeline :
            InRange(timeline[e]) =>
               /\ Cardinality(ItemsOfEvent(timeline[e].id)) = 1
               /\ OutsideProject(timeline[e]) =>
                     \A k \in ItemsOfEvent(timeline[e].id) : evidence[k].projectId = Undefined

====
